---- MODULE Spec2Model ----
(***************************************************************************)
(* The SQL-to-dataflow planner of arroyo-df (Planner::get_arrow_program    *)
(* and Planner::tumbling_window_config) as a state machine.                *)
(*                                                                         *)
(* A rewriter graph (local_logical_plan_graph) is fixed in Init.  Each     *)
(* plan call walks it in petgraph's Topo order; one action translates one  *)
(* input node and rewires its incoming edges, exactly one loop iteration   *)
(* of get_arrow_program.  Node indices are positions 1..n of the node      *)
(* sequence (petgraph's NodeIndex i is position i + 1); every index that   *)
(* the program computes with (field positions, key indices, node counts)   *)
(* keeps the program's 0-based value.                                      *)
(*                                                                         *)
(* ArroyoSchema (arroyo-rpc) and the MQTT sink's on_start                  *)
(* (arroyo-connectors) are modelled next to it, each with a specification  *)
(* of its own.                                                             *)
(***************************************************************************)
EXTENDS Integers, Sequences, FiniteSets, TLC

VARIABLES
    rewriter,       \* QueryToGraphVisitor.local_logical_plan_graph: [nodes, edges]
    active,         \* the plan calls that are made on this rewriter graph
    pc,             \* per call: "idle", "walk", "await", "done", "failed", "panicked"
    topo,           \* per call: petgraph Topo state [tovisit, ordered]
    program_graph,  \* per call: the LogicalGraph under construction [nodes, edges]
    node_mapping,   \* per call: input node index -> output node index (0 = absent)
    planner_calls,  \* per call: the input nodes create_physical_plan was awaited for
    outcome,        \* per call: what the call returned: [kind, error, program, ...]
    df,             \* ArroyoSchema: the arguments, the schema made of them, its wire form
    mqtt,           \* MqttSinkFunc and the locals of its on_start
    hashing,        \* server_for_hash_array: the server count, the hash, the result
    udf,            \* the UDF endpoints: the udfs table, the compiler's store, the requests
    cli             \* arroyo start: docker's container, the position and the calls made

vars == <<rewriter, active, pc, topo, program_graph, node_mapping, planner_calls, outcome, df, mqtt, hashing, udf, cli>>

\* The state of the planner.
planner_vars == <<rewriter, active, pc, topo, program_graph, node_mapping, planner_calls, outcome>>

\* The state outside the planner.
others == <<df, mqtt, hashing, udf, cli>>

(***************************************************************************)
(* Bounds of the model.                                                    *)
(***************************************************************************)
MaxNodes == 3       \* nodes of a rewriter graph
MaxEdges == 2       \* edges of a rewriter graph of arbitrary shape
MaxFields == 3      \* fields of a schema an ArroyoSchema is made of
MaxKeys == 2        \* key indices an ArroyoSchema is made with
WireBits == 6       \* width the u32 of the wire form is scaled down to
IntBits == 29       \* width the i64 and u64 of the operator config are scaled down to
I32Bits == 6        \* width the i32 of the MQTT sink's attempt counter is scaled down to
HashBits == 5       \* width the u64 of a hash is scaled down to
MaxServers == 4     \* servers the hashes are spread over
MaxRequests == 2    \* requests to the UDF endpoints that are in flight together
MaxPolls == 3       \* polls of a wait loop of the CLI that find nothing yet

Calls == {1, 2}

(***************************************************************************)
(* Sequences, options and 0-based indexing.                                *)
(***************************************************************************)
Range(s) == {s[i] : i \in 1..Len(s)}

Reverse(s) == [i \in 1..Len(s) |-> s[Len(s) + 1 - i]]

\* Option<T>: None is the empty sequence, Some(v) the one-element sequence.
None == <<>>
Some(v) == <<v>>

TIMESTAMP_FIELD == "_timestamp"

\* Schema::column_with_name / index_of: 0-based position of the first field
\* of that name, -1 when there is none.
IndexOfName(fields, name) ==
    IF \E i \in 1..Len(fields) : fields[i] = name
    THEN (CHOOSE i \in 1..Len(fields) :
              fields[i] = name /\ \A j \in 1..(i - 1) : fields[j] # name) - 1
    ELSE -1

\* usize -> u32 of the wire form (`as u32`), at the scaled width.
AsU32(x) == x % (2 ^ WireBits)

ArroyoSchemaNew(schema, timestamp_index, key_indices) ==
    [schema |-> schema, timestamp_index |-> timestamp_index, key_indices |-> key_indices]

\* TryFrom<ArroyoSchema> for api::ArroyoSchema.
ArroyoSchemaToProto(s) ==
    [arrow_schema |-> s.schema,
     timestamp_index |-> AsU32(s.timestamp_index),
     key_indices |-> [i \in 1..Len(s.key_indices) |-> AsU32(s.key_indices[i])]]

\* schemas::add_timestamp_field_arrow: the schema with a _timestamp column appended.
add_timestamp_field_arrow(fields) == Append(fields, TIMESTAMP_FIELD)

(***************************************************************************)
(* Edges.  A DataFusionEdge is built by DataFusionEdge::new, which fails   *)
(* when the schema has no _timestamp column; converting it to a            *)
(* LogicalEdge keeps the edge type and wraps the schema.                   *)
(***************************************************************************)
DataFusionEdgeNew(schema, edge_type, key_indices) ==
    IF IndexOfName(schema, TIMESTAMP_FIELD) < 0
    THEN [ok |-> FALSE]
    ELSE [ok |-> TRUE,
          schema |-> schema,
          edge_type |-> edge_type,
          timestamp_index |-> IndexOfName(schema, TIMESTAMP_FIELD),
          key_indices |-> key_indices]

\* From<&DataFusionEdge> for LogicalEdge.
LogicalEdgeFrom(df_edge) ==
    [edge_type |-> df_edge.edge_type,
     schema |-> ArroyoSchemaNew(df_edge.schema, df_edge.timestamp_index,
                                df_edge.key_indices),
     projection |-> None]

(***************************************************************************)
(* std::time::Duration {secs, nanos} and its Debug form, which names the   *)
(* TumblingWindow operator.                                                *)
(***************************************************************************)
Duration(secs, nanos) == [secs |-> secs, nanos |-> nanos]

as_micros(d) == d.secs * 1000000 + d.nanos \div 1000

as_nanos(d) == d.secs * 1000000000 + d.nanos

\* u128 -> u64 (as u64) and u128 -> i64 (as i64), at the scaled width: the
\* low bits are kept, and the top bit is the sign of the i64.  A width of
\* 2^(IntBits - 1) ns and more stands for one of 2^63 ns and more.
AsU64(x) == x % (2 ^ IntBits)

AsI64(x) ==
    IF x % (2 ^ IntBits) >= 2 ^ (IntBits - 1)
    THEN (x % (2 ^ IntBits)) - 2 ^ IntBits
    ELSE x % (2 ^ IntBits)

\* fmt_decimal's fractional digits: one digit per step until nothing is left.
RECURSIVE FractionDigits(_, _)
FractionDigits(fractional, divisor) ==
    IF fractional = 0 \/ divisor = 0
    THEN ""
    ELSE ToString(fractional \div divisor)
             \o FractionDigits(fractional % divisor, divisor \div 10)

fmt_decimal(integer, fractional, divisor, suffix) ==
    ToString(integer)
        \o (IF fractional > 0 THEN "." \o FractionDigits(fractional, divisor) ELSE "")
        \o suffix

\* Mutant: the width is printed in whole nanoseconds.
DurationDebugNanos(d) == ToString(as_nanos(d)) \o "ns"

DurationDebug(d) ==
    IF d.secs > 0 THEN fmt_decimal(d.secs, d.nanos, 100000000, "s")
    ELSE IF d.nanos >= 1000000
         THEN fmt_decimal(d.nanos \div 1000000, d.nanos % 1000000, 100000, "ms")
    ELSE IF d.nanos >= 1000
         THEN fmt_decimal(d.nanos \div 1000, d.nanos % 1000, 100, "µs")
    ELSE fmt_decimal(d.nanos, 0, 1, "ns")

(***************************************************************************)
(* The catalog (ArroyoSchemaProvider) the planner borrows.                 *)
(***************************************************************************)
ConnectorOp(operator, description) ==
    [operator |-> operator, config |-> "{}", description |-> description]

\* get_table: None, or the table; as_sql_source of a connector table that is
\* bound as a sink fails.
Catalog(table_name) ==
    CASE table_name = "t" ->
            Some([variant |-> "ConnectorTable",
                  sql_source |-> [ok |-> TRUE,
                                  config |-> ConnectorOp("kafka::source", "kafka<t>")]])
      [] table_name = "u" ->
            Some([variant |-> "ConnectorTable",
                  sql_source |-> [ok |-> TRUE,
                                  config |-> ConnectorOp("mqtt::source", "mqtt<u>")]])
      [] table_name = "out" ->
            Some([variant |-> "ConnectorTable", sql_source |-> [ok |-> FALSE]])
      [] table_name = "mem" -> Some([variant |-> "MemoryTable"])
      [] OTHER -> None

(***************************************************************************)
(* Physical plans as the sub-planner (DataFusion) returns them, in the     *)
(* PhysicalPlanNode form: plan type, aggregate mode, output schema, child. *)
(***************************************************************************)
PlanNode(plan_type, mode, schema, input) ==
    [plan_type |-> plan_type, mode |-> mode, schema |-> schema, input |-> input]

PlanOk(plan) == [ok |-> TRUE, plan |-> plan]
PlanErr == [ok |-> FALSE]

ScanPlan(schema) == PlanNode("MemoryScan", "", schema, None)

ProjectionPlan(schema) ==
    PlanNode("Projection", "", schema, Some(ScanPlan(<<"a", "b", TIMESTAMP_FIELD>>)))

\* Final aggregate over a partial aggregate with output schema partial_fields.
AggregatePlan(mode, partial_fields, input_fields) ==
    PlanNode("Aggregate", mode, <<"a", "s">>,
             Some(PlanNode("Aggregate", "Partial", partial_fields,
                           Some(ScanPlan(input_fields)))))

(***************************************************************************)
(* Plan extensions: the five node variants of the rewriter graph.          *)
(***************************************************************************)
TableScanNode(table_name, projected_schema, projection) ==
    [kind |-> "TableScan", table_name |-> table_name,
     projected_schema |-> projected_schema, projection |-> projection]

ValueCalculationNode(physical_plan) ==
    [kind |-> "ValueCalculation", physical_plan |-> physical_plan]

KeyCalculationNode(physical_plan, key_columns) ==
    [kind |-> "KeyCalculation", physical_plan |-> physical_plan,
     key_columns |-> key_columns]

\* aggregate.aggregate.input is summarised by whether it is a TableScan and by
\* its schema; physical_plan is the sub-planner's answer for the aggregate.
AggregateCalculationNode(window, input_is_table_scan, input_schema, key_fields, plan) ==
    [kind |-> "AggregateCalculation", window |-> window,
     input_is_table_scan |-> input_is_table_scan, input_schema |-> input_schema,
     key_fields |-> key_fields, window_field |-> "window", window_index |-> 1,
     physical_plan |-> plan]

SinkNode(name, connector_op) ==
    [kind |-> "Sink", name |-> name, connector_op |-> connector_op]

Tumbling(width) == [type |-> "Tumbling", width |-> width]
Sliding(width, slide) == [type |-> "Sliding", width |-> width, slide |-> slide]
Instant == [type |-> "Instant"]
Session(gap) == [type |-> "Session", gap |-> gap]

(***************************************************************************)
(* The rewriter graphs the planner is run on.                              *)
(***************************************************************************)
ScanFields == <<"a", "b", TIMESTAMP_FIELD>>

\* One well-formed node of each variant.
PlainNodes ==
    { TableScanNode("t", ScanFields, None),
      ValueCalculationNode(PlanOk(ProjectionPlan(<<"x", TIMESTAMP_FIELD>>))),
      KeyCalculationNode(PlanOk(ProjectionPlan(ScanFields)), <<0>>),
      AggregateCalculationNode(Tumbling(Duration(2, 0)), TRUE, ScanFields, <<0>>,
                               PlanOk(AggregatePlan("Final", <<"a", "s">>, ScanFields))),
      SinkNode("out", ConnectorOp("kafka::sink", "kafka<out>")) }

\* Further payloads: other tables, projections, keys, windows, widths, and
\* the answers of the catalog and of the sub-planner that make a call fail.
OtherNodes ==
    { TableScanNode("u", <<TIMESTAMP_FIELD, "a">>, Some(<<2, 0>>)),
      TableScanNode("missing", ScanFields, None),
      TableScanNode("mem", ScanFields, None),
      TableScanNode("out", ScanFields, None),
      TableScanNode("t", <<"a", "b">>, None),
      ValueCalculationNode(PlanErr),
      KeyCalculationNode(PlanOk(ProjectionPlan(ScanFields)), <<1, 0>>),
      KeyCalculationNode(PlanErr, <<0>>),
      AggregateCalculationNode(Tumbling(Duration(0, 1500000)), TRUE, ScanFields, <<1, 0>>,
                               PlanOk(AggregatePlan("Final", <<"a", "b", "s">>, ScanFields))),
      AggregateCalculationNode(Tumbling(Duration(0, 2500)), TRUE, ScanFields, <<>>,
                               PlanOk(AggregatePlan("Final", <<"s">>, ScanFields))),
      AggregateCalculationNode(Sliding(Duration(10, 0), Duration(1, 0)), TRUE, ScanFields,
                               <<0>>,
                               PlanOk(AggregatePlan("Final", <<"a", "s">>, ScanFields))),
      AggregateCalculationNode(Session(Duration(1, 0)), TRUE, ScanFields, <<0>>,
                               PlanOk(AggregatePlan("Final", <<"a", "s">>, ScanFields))),
      AggregateCalculationNode(Instant, TRUE, ScanFields, <<0>>,
                               PlanOk(AggregatePlan("Final", <<"a", "s">>, ScanFields))),
      AggregateCalculationNode(Tumbling(Duration(2, 0)), FALSE, ScanFields, <<0>>,
                               PlanOk(AggregatePlan("Final", <<"a", "s">>, ScanFields))),
      AggregateCalculationNode(Sliding(Duration(10, 0), Duration(1, 0)), FALSE, ScanFields,
                               <<0>>,
                               PlanOk(AggregatePlan("Final", <<"a", "s">>, ScanFields))),
      AggregateCalculationNode(Tumbling(Duration(2, 0)), TRUE, ScanFields, <<0>>,
                               PlanOk(ProjectionPlan(<<"a", "s">>))),
      AggregateCalculationNode(Tumbling(Duration(2, 0)), TRUE, ScanFields, <<0>>,
                               PlanOk(AggregatePlan("Single", <<"a", "s">>, ScanFields))),
      AggregateCalculationNode(Tumbling(Duration(2, 0)), TRUE, ScanFields, <<0>>, PlanErr),
      AggregateCalculationNode(Tumbling(Duration(2, 0)), TRUE, <<>>, <<>>,
                               PlanOk(AggregatePlan("Final", <<"s">>, <<>>))),
      AggregateCalculationNode(Tumbling(Duration(0, 700)), TRUE, <<TIMESTAMP_FIELD, "a">>,
                               <<1>>,
                               PlanOk(AggregatePlan("Final", <<"a", "s">>,
                                                    <<TIMESTAMP_FIELD, "a">>))) }

NodeChoices == PlainNodes \cup OtherNodes

Edge(source, target, weight) == [source |-> source, target |-> target, weight |-> weight]

\* The nodes reachable from the set `from` along the edges.
RECURSIVE Reachable(_, _)
Reachable(from, edges) ==
    LET next == from \cup {e.target : e \in {x \in Range(edges) : x.source \in from}}
    IN IF next = from THEN from ELSE Reachable(next, edges)

Acyclic(edges) ==
    \A e \in Range(edges) : e.source \notin Reachable({e.target}, edges)

\* The nodes of the graphs of arbitrary shape, and the pairs an edge may
\* join: a TableScan has no input and a Sink no consumer.
ShapeNodes == {n \in PlainNodes : n.kind \in {"TableScan", "ValueCalculation", "Sink"}}

EdgePairs(ns) ==
    { <<u, v>> \in (1..Len(ns)) \X (1..Len(ns)) :
        u # v /\ ns[u].kind # "Sink" /\ ns[v].kind # "TableScan" }

\* The pairs of a set as a sequence, in ascending or descending order of
\* <<source, target>>.
RECURSIVE PairSeq(_, _)
PairSeq(pairs, ascending) ==
    IF pairs = {} THEN <<>>
    ELSE LET p == CHOOSE x \in pairs :
                      \A y \in pairs :
                          LET le == x[1] < y[1] \/ (x[1] = y[1] /\ x[2] <= y[2])
                              ge == x[1] > y[1] \/ (x[1] = y[1] /\ x[2] >= y[2])
                          IN IF ascending THEN le ELSE ge
         IN <<p>> \o PairSeq(pairs \ {p}, ascending)

WeightSeq ==
    << DataFusionEdgeNew(ScanFields, "Forward", <<>>),
       DataFusionEdgeNew(<<"a", TIMESTAMP_FIELD, "b">>, "Shuffle", <<0>>),
       DataFusionEdgeNew(<<TIMESTAMP_FIELD, "x">>, "Broadcast", <<>>) >>

\* The edges added in the order of ps, the first one twice when `parallel`;
\* the edge types rotate with the position.
ShapeEdges(ps, parallel) ==
    LET qs == IF parallel THEN <<ps[1]>> \o ps ELSE ps
    IN [i \in 1..Len(qs) |->
           Edge(qs[i][1], qs[i][2], WeightSeq[(i % Len(WeightSeq)) + 1])]

\* Graphs of any acyclic shape (parallel edges included) over ShapeNodes.
ShapeGraphs ==
    UNION { UNION { { [nodes |-> ns, edges |-> ShapeEdges(PairSeq(ps, asc), par)] :
                         <<asc, par>> \in (IF Cardinality(ps) > 1 THEN BOOLEAN ELSE {TRUE})
                                          \X (IF ps # {} THEN BOOLEAN ELSE {FALSE}) } :
                     ps \in {x \in SUBSET EdgePairs(ns) :
                                /\ Cardinality(x) <= MaxEdges
                                /\ Acyclic(ShapeEdges(PairSeq(x, TRUE), FALSE))} } :
            ns \in UNION {[1..n -> ShapeNodes] : n \in 1..MaxNodes} }

\* TableScan -> KeyCalculation -> AggregateCalculation keyed on two columns,
\* the key node and the aggregate declaring the same keys.
KeyedNodes ==
    { << TableScanNode("t", ScanFields, None),
         KeyCalculationNode(PlanOk(ProjectionPlan(ScanFields)), keys),
         AggregateCalculationNode(Tumbling(Duration(0, 1500000)), TRUE, ScanFields, keys,
                                  PlanOk(AggregatePlan("Final", <<"a", "b", "s">>,
                                                       ScanFields))) >> :
        keys \in {<<1, 0>>, <<0, 1>>} }

\* Pipelines node 1 -> node 2 -> ... over every payload, at most one node of
\* a pipeline taken from OtherNodes, and the keyed pipelines.
PipelineNodes ==
    KeyedNodes \cup
    UNION { [1..n -> PlainNodes]
            \cup { [i \in 1..n |-> IF i < k THEN ns[i]
                                   ELSE IF i = k THEN other ELSE ns[i - 1]] :
                     <<ns, k, other>> \in [1..(n - 1) -> PlainNodes] \X (1..n) \X OtherNodes } :
            n \in 1..MaxNodes }

Pipelines ==
    { [nodes |-> ns,
       edges |-> [i \in 1..(Len(ns) - 1) |-> Edge(i, i + 1, WeightSeq[1])]] :
        ns \in PipelineNodes }

(***************************************************************************)
(* petgraph: adjacency iteration and the Topo walker.                      *)
(***************************************************************************)
EmptyGraph == [nodes |-> <<>>, edges |-> <<>>]

node_count(g) == Len(g.nodes)

add_node(g, weight) == [g EXCEPT !.nodes = Append(@, weight)]

\* Mutant: update_edge, which replaces the weight of an edge a -> b that is
\* already there instead of adding a parallel edge.
update_edge(g, a, b, weight) ==
    IF \E k \in 1..Len(g.edges) : g.edges[k].source = a /\ g.edges[k].target = b
    THEN [g EXCEPT !.edges = [k \in 1..Len(g.edges) |->
                                 IF g.edges[k].source = a /\ g.edges[k].target = b
                                 THEN [g.edges[k] EXCEPT !.weight = weight]
                                 ELSE g.edges[k]]]
    ELSE [g EXCEPT !.edges = Append(@, [source |-> a, target |-> b, weight |-> weight])]

add_edge(g, a, b, weight) == [g EXCEPT !.edges = Append(@, Edge(a, b, weight))]

\* edges_directed: a node's edges, the most recently added first.
edges_directed(g, n, dir) ==
    Reverse(SelectSeq(g.edges,
                      LAMBDA e : IF dir = "Incoming" THEN e.target = n ELSE e.source = n))

\* neighbors: the targets of a node's outgoing edges, in their order.
Targets(edges) == [i \in 1..Len(edges) |-> edges[i].target]

\* Topo::new: the nodes without incoming edges, in index order.
TopoNew(g) ==
    [tovisit |-> SelectSeq([i \in 1..node_count(g) |-> i],
                           LAMBDA a : edges_directed(g, a, "Incoming") = <<>>),
     ordered |-> {}]

\* Mutant: every neighbour is pushed, whether or not its predecessors are
\* ordered.
RECURSIVE TopoNextEager(_, _)
TopoNextEager(t, g) ==
    IF t.tovisit = <<>>
    THEN {[node |-> 0, topo |-> t]}
    ELSE LET nix == t.tovisit[Len(t.tovisit)]
             rest == SubSeq(t.tovisit, 1, Len(t.tovisit) - 1)
         IN IF nix \in t.ordered
            THEN TopoNextEager([t EXCEPT !.tovisit = rest], g)
            ELSE {[node |-> nix,
                   topo |-> [tovisit |-> rest \o Targets(edges_directed(g, nix, "Outgoing")),
                             ordered |-> t.ordered \cup {nix}]]}

\* Mutant: any unvisited entry of tovisit is taken, not the last one.
TopoNextAny(t, g) ==
    LET unvisited == {i \in 1..Len(t.tovisit) : t.tovisit[i] \notin t.ordered} IN
    IF unvisited = {}
    THEN {[node |-> 0, topo |-> [t EXCEPT !.tovisit = <<>>]]}
    ELSE { LET nix == t.tovisit[i]
               rest == SubSeq(t.tovisit, 1, i - 1)
                           \o SubSeq(t.tovisit, i + 1, Len(t.tovisit))
               ordered == t.ordered \cup {nix}
               neighbors == Targets(edges_directed(g, nix, "Outgoing"))
               ready == SelectSeq(neighbors,
                            LAMBDA neigh :
                                \A e \in Range(edges_directed(g, neigh, "Incoming")) :
                                    e.source \in ordered)
           IN [node |-> nix, topo |-> [tovisit |-> rest \o ready, ordered |-> ordered]] :
           i \in unvisited }

\* Topo::next: pop until an unvisited node appears; push each of its
\* neighbours all of whose predecessors are ordered.  The result is the set
\* of possible answers (one: the walk is deterministic); node 0 is None.
RECURSIVE TopoNext(_, _)
TopoNext(t, g) ==
    IF t.tovisit = <<>>
    THEN {[node |-> 0, topo |-> t]}
    ELSE LET nix == t.tovisit[Len(t.tovisit)]
             rest == SubSeq(t.tovisit, 1, Len(t.tovisit) - 1)
         IN IF nix \in t.ordered
            THEN TopoNext([t EXCEPT !.tovisit = rest], g)
            ELSE LET ordered == t.ordered \cup {nix}
                     neighbors == Targets(edges_directed(g, nix, "Outgoing"))
                     ready == SelectSeq(neighbors,
                                  LAMBDA neigh :
                                      \A e \in Range(edges_directed(g, neigh, "Incoming")) :
                                          e.source \in ordered)
                 IN {[node |-> nix,
                      topo |-> [tovisit |-> rest \o ready, ordered |-> ordered]]}

(***************************************************************************)
(* Results of fallible steps: Ok, Err (an anyhow error returned with `?`   *)
(* or bail!) and Panic (unwrap, expect, panic!).                           *)
(***************************************************************************)
Ok(value) == [kind |-> "ok", value |-> value]
Err(error) == [kind |-> "err", error |-> error]
Panic(error) == [kind |-> "panic", error |-> error]

LogicalNode(operator_id, description, operator_name, operator_config, parallelism) ==
    [operator_id |-> operator_id, description |-> description,
     operator_name |-> operator_name, operator_config |-> operator_config,
     parallelism |-> parallelism]

\* Mutant: the id carries no node count.
OperatorIdNoCount(prefix, g) == prefix \o "_" \o ToString(0)

\* Mutant: the id carries the node count after the insertion.
OperatorIdAfter(prefix, g) == prefix \o "_" \o ToString(node_count(g) + 1)

\* format!("{prefix}_{}", program_graph.node_count())
OperatorId(prefix, g) == prefix \o "_" \o ToString(node_count(g))

(***************************************************************************)
(* Planner::binning_function_proto and Planner::tumbling_window_config.    *)
(***************************************************************************)
\* date_bin(INTERVAL (0 months, 0 days, width ns), _timestamp), resolved
\* against the input schema: the column must exist there.
binning_function_proto(duration, input_schema) ==
    IF IndexOfName(input_schema, TIMESTAMP_FIELD) < 0
    THEN Err("no field named _timestamp")
    ELSE Ok([fun |-> "DateBin",
             interval |-> [months |-> 0, days |-> 0, nanos |-> AsI64(as_nanos(duration))],
             column |-> TIMESTAMP_FIELD])

ArroyoMemExec(table_name, schema) ==
    [plan_type |-> "ArroyoMemExec", table_name |-> table_name, schema |-> schema]

\* Mutant: a planned node of another shape is unwrapped, not reported.
FinalAggregateExpect(physical_plan) ==
    IF physical_plan.plan_type # "Aggregate"
    THEN Panic("expected aggregate physical plan")
    ELSE IF physical_plan.mode # "Final" THEN Panic("expected Final mode")
    ELSE IF physical_plan.input = None THEN Panic("should have input")
    ELSE Ok(physical_plan)

\* Mutant: the aggregate's mode is not checked.
FinalAggregateAnyMode(physical_plan) ==
    IF physical_plan.plan_type # "Aggregate"
    THEN Err("expected aggregate physical plan")
    ELSE IF physical_plan.input = None THEN Panic("should have input")
    ELSE Ok(physical_plan)

\* The shape required of the planned aggregate: an Aggregate node in Final
\* mode that has an input.
FinalAggregate(physical_plan) ==
    IF physical_plan.plan_type # "Aggregate"
    THEN Err("expected aggregate physical plan")
    ELSE IF physical_plan.mode # "Final"
         THEN Err("expect AggregateMode to be Final so we can decompose it for checkpointing.")
    ELSE IF physical_plan.input = None THEN Panic("should have input")
    ELSE Ok(physical_plan)

\* The final aggregate with its input replaced by the relation `partial`.
FinishPlan(final_aggregate_proto, partial_fields) ==
    [final_aggregate_proto EXCEPT !.input = Some(ArroyoMemExec("partial", partial_fields))]

\* Mutant: the timestamp index is computed as for the input schema.
PartialSchemaLastIndex(partial_fields, key_fields) ==
    ArroyoSchemaNew(add_timestamp_field_arrow(partial_fields), Len(partial_fields) - 1,
                    key_fields)

\* Mutant: the timestamp is looked up by name.
InputSchemaByName(fields, key_fields) ==
    ArroyoSchemaNew(fields, IndexOfName(fields, TIMESTAMP_FIELD), key_fields)

\* Mutant: the input schema carries no key indices.
InputSchemaNoKeys(fields, key_fields) == ArroyoSchemaNew(fields, Len(fields) - 1, <<>>)

\* The schema of the aggregate's input: the timestamp is taken to be the
\* last field, the key indices are the aggregate's key fields.
InputSchema(fields, key_fields) == ArroyoSchemaNew(fields, Len(fields) - 1, key_fields)

\* The schema of the partial results: the partial aggregate's fields with
\* _timestamp appended, its index, and the aggregate's key fields.
PartialSchema(partial_fields, key_fields) ==
    ArroyoSchemaNew(add_timestamp_field_arrow(partial_fields), Len(partial_fields), key_fields)

tumbling_window_config(aggregate) ==
    IF aggregate.window.type # "Tumbling" THEN Err("expected tumbling window")
    ELSE
    LET width == aggregate.window.width
        binning_function == binning_function_proto(width, aggregate.input_schema)
    IN
    IF binning_function.kind # "ok" THEN binning_function
    ELSE IF Len(aggregate.input_schema) = 0
         THEN Panic("attempt to subtract with overflow")
    ELSE IF ~aggregate.input_is_table_scan THEN Err("expected logical plan")
    ELSE IF ~aggregate.physical_plan.ok
         THEN Err("couldn't create physical plan for aggregate")
    ELSE IF FinalAggregate(aggregate.physical_plan.plan).kind # "ok"
         THEN FinalAggregate(aggregate.physical_plan.plan)
    ELSE
    LET input_schema == InputSchema(aggregate.input_schema, aggregate.key_fields)
        final_aggregate_proto == FinalAggregate(aggregate.physical_plan.plan).value
        partial_aggregation_plan == final_aggregate_proto.input[1]
        partial_fields == partial_aggregation_plan.schema
        finish_plan == FinishPlan(final_aggregate_proto, partial_fields)
        partial_schema == PartialSchema(partial_fields, aggregate.key_fields)
        config ==
            [name |-> "TumblingWindow<" \o DurationDebug(width) \o ">",
             width_micros |-> AsU64(as_micros(width)),
             binning_function |-> binning_function.value,
             window_field_name |-> aggregate.window_field,
             window_index |-> aggregate.window_index,
             input_schema |-> ArroyoSchemaToProto(input_schema),
             partial_schema |-> ArroyoSchemaToProto(partial_schema),
             partial_aggregation_plan |-> partial_aggregation_plan,
             final_aggregation_plan |-> finish_plan]
    IN Ok(LogicalNode(config.name, "tumbling window", "TumblingWindowAggregate",
                      config, 1))

(***************************************************************************)
(* The match arms of get_arrow_program: each takes the output graph and    *)
(* the input node and gives the graph after the arm, the index of the new  *)
(* node, and how the arm ended.                                            *)
(***************************************************************************)
Arm(kind, error, graph, new_node) ==
    [kind |-> kind, error |-> error, graph |-> graph, new_node |-> new_node]

PeriodicWatermark ==
    [period_micros |-> 1000000, max_lateness_micros |-> 0, idle_time_micros |-> None]

\* Mutant: the edge is built whether or not the schema has a _timestamp.
ScanEdgeUnchecked(node) ==
    Ok([edge_type |-> "Forward",
        schema |-> ArroyoSchemaNew(node.projected_schema,
                                   IndexOfName(node.projected_schema, TIMESTAMP_FIELD),
                                   <<>>),
        projection |-> node.projection])

\* The source -> watermark edge of a TableScan: DataFusionEdge::new(...)
\* unwrapped, converted, with the scan's projection.
ScanEdge(node) ==
    LET df_edge == DataFusionEdgeNew(node.projected_schema, "Forward", <<>>)
    IN IF ~df_edge.ok
       THEN Panic("called Result::unwrap() on an Err value")
       ELSE Ok([LogicalEdgeFrom(df_edge) EXCEPT !.projection = node.projection])

\* Mutant: the TableScan is mapped to its source node, not to the watermark.
ScanNewNodeSource(source_index, watermark_index) == source_index

\* The node a TableScan is mapped to, and the value of its match arm.
ScanNewNode(source_index, watermark_index) == watermark_index

\* Mutant: the error does not say which table.
TableNotFoundUnnamed(table_name) == Err("table not found")

\* ok_or_else(|| anyhow!("table {} not found", table_scan.table_name))?
TableNotFound(table_name) == Err("table " \o table_name \o " not found")

TranslateTableScan(g, node) ==
    LET source == Catalog(node.table_name) IN
    IF source = None THEN Arm("err", TableNotFound(node.table_name).error, g, 0)
    ELSE IF source[1].variant # "ConnectorTable"
         THEN Arm("panic", "expect connector table", g, 0)
    ELSE IF ~source[1].sql_source.ok THEN Arm("err", "not a source", g, 0)
    ELSE
    LET sql_source == source[1].sql_source
        g1 == add_node(g, LogicalNode(OperatorId("source", g),
                                      sql_source.config.description,
                                      "ConnectorSource", sql_source.config, 1))
        source_index == node_count(g1)
        g2 == add_node(g1, LogicalNode(OperatorId("watermark", g1), "watermark",
                                       "Watermark", PeriodicWatermark, 1))
        watermark_index == node_count(g2)
        edge == ScanEdge(node)
    IN IF edge.kind # "ok"
       THEN Arm(edge.kind, edge.error, g2, 0)
       ELSE Arm("ok", "", add_edge(g2, source_index, watermark_index, edge.value),
                ScanNewNode(source_index, watermark_index))

TranslateValueCalculation(g, node) ==
    IF ~node.physical_plan.ok
    THEN Arm("err", "creating physical plan for value calculation", g, 0)
    ELSE LET config == [name |-> "tmp", physical_plan |-> node.physical_plan.plan]
             g1 == add_node(g, LogicalNode(OperatorId("value", g),
                                           "arrow_value<" \o config.name \o ">",
                                           "ArrowValue", config, 1))
         IN Arm("ok", "", g1, node_count(g1))

\* Mutant: the key columns are collected in reverse.
KeyFieldsReversed(key_columns) == Reverse(key_columns)

\* key_columns.iter().map(|column| (*column) as u64).collect()
KeyFields(key_columns) == key_columns

TranslateKeyCalculation(g, node) ==
    IF ~node.physical_plan.ok
    THEN Arm("err", "creating physical plan", g, 0)
    ELSE LET config == [name |-> "tmp", physical_plan |-> node.physical_plan.plan,
                        key_fields |-> KeyFields(node.key_columns)]
             g1 == add_node(g, LogicalNode(OperatorId("key", g),
                                           "ArrowKey<" \o config.name \o ">",
                                           "ArrowKey", config, 1))
         IN Arm("ok", "", g1, node_count(g1))

\* Mutant: the aggregate's input is not looked at.
ExpectTableScanInputSkipped(input_is_table_scan) == Ok(TRUE)

\* let LogicalPlan::TableScan(_) = aggregate.aggregate.input.as_ref()
\* else { bail!("expected logical plan") }
ExpectTableScanInput(input_is_table_scan) ==
    IF input_is_table_scan THEN Ok(TRUE) ELSE Err("expected logical plan")

\* Mutant: the window kind is examined before the aggregate's input.
TranslateAggregateWindowFirst(g, node) ==
    IF node.window.type # "Tumbling"
    THEN Arm("panic", "only support tumbling windows for now", g, 0)
    ELSE IF ExpectTableScanInput(node.input_is_table_scan).kind # "ok"
         THEN Arm("err", ExpectTableScanInput(node.input_is_table_scan).error, g, 0)
    ELSE LET logical_node == tumbling_window_config(node) IN
         IF logical_node.kind # "ok"
         THEN Arm(logical_node.kind, logical_node.error, g, 0)
         ELSE LET g1 == add_node(g, [logical_node.value EXCEPT
                                        !.operator_id = OperatorId(@, g)])
              IN Arm("ok", "", g1, node_count(g1))

TranslateAggregateCalculation(g, node) ==
    IF ExpectTableScanInput(node.input_is_table_scan).kind # "ok"
    THEN Arm("err", ExpectTableScanInput(node.input_is_table_scan).error, g, 0)
    ELSE IF node.window.type # "Tumbling"
         THEN Arm("panic", "only support tumbling windows for now", g, 0)
    ELSE LET logical_node == tumbling_window_config(node) IN
         IF logical_node.kind # "ok"
         THEN Arm(logical_node.kind, logical_node.error, g, 0)
         ELSE LET g1 == add_node(g, [logical_node.value EXCEPT
                                        !.operator_id = OperatorId(@, g)])
              IN Arm("ok", "", g1, node_count(g1))

TranslateSink(g, node) ==
    LET connector_op == node.connector_op
        g1 == add_node(g, LogicalNode(OperatorId("sink", g), connector_op.description,
                                      "ConnectorSink", connector_op, 1))
    IN Arm("ok", "", g1, node_count(g1))

Translate(g, node) ==
    CASE node.kind = "TableScan" -> TranslateTableScan(g, node)
      [] node.kind = "ValueCalculation" -> TranslateValueCalculation(g, node)
      [] node.kind = "KeyCalculation" -> TranslateKeyCalculation(g, node)
      [] node.kind = "AggregateCalculation" -> TranslateAggregateCalculation(g, node)
      [] node.kind = "Sink" -> TranslateSink(g, node)

\* Mutant: the edge's source is looked up under the edge's target.
RECURSIVE RewireFromTarget(_, _, _, _)
RewireFromTarget(g, mapping, incoming, new_node) ==
    IF incoming = <<>> THEN Arm("ok", "", g, new_node)
    ELSE RewireFromTarget(add_edge(g, mapping[Head(incoming).target], new_node,
                                   LogicalEdgeFrom(Head(incoming).weight)),
                          mapping, Tail(incoming), new_node)

\* Mutant: only the first incoming edge is rewired.
RewireFirst(g, mapping, incoming, new_node) ==
    IF incoming = <<>> THEN Arm("ok", "", g, new_node)
    ELSE IF mapping[Head(incoming).source] = 0
         THEN Arm("panic", "called Option::unwrap() on a None value", g, new_node)
    ELSE Arm("ok", "",
             [g EXCEPT !.edges = Append(@, [source |-> mapping[Head(incoming).source],
                                            target |-> new_node,
                                            weight |-> LogicalEdgeFrom(Head(incoming).weight)])],
             new_node)

\* The loop over the node's incoming rewriter edges, most recent first:
\* add_edge(node_mapping[source], new_node, converted weight); the lookup of
\* an unmapped source panics.
RECURSIVE Rewire(_, _, _, _)
Rewire(g, mapping, incoming, new_node) ==
    IF incoming = <<>> THEN Arm("ok", "", g, new_node)
    ELSE IF mapping[Head(incoming).source] = 0
         THEN Arm("panic", "called Option::unwrap() on a None value", g, new_node)
    ELSE Rewire(add_edge(g, mapping[Head(incoming).source], new_node,
                         LogicalEdgeFrom(Head(incoming).weight)),
                mapping, Tail(incoming), new_node)

(***************************************************************************)
(* The state machine.                                                      *)
(***************************************************************************)
NoOutcome == [kind |-> "none"]

\* No ArroyoSchema is being made.
NoSchema == [pc |-> "none"]

\* No MQTT sink is constructed.
NoSink == [pc |-> "none"]

\* server_for_hash_array is not called.
NoHashing == [pc |-> "none"]

\* No request is made to the UDF endpoints.
NoRequests == [pc |-> "none"]

\* No CLI command is run.
NoCommand == [pc |-> "none"]

\* CompiledSql { program, connection_ids: vec![], schemas: HashMap::new() }
CompiledSql(g) ==
    [kind |-> "ok", program |-> [graph |-> g], connection_ids |-> <<>>, schemas |-> <<>>]

InitCalls(made) ==
    /\ \/ rewriter \in ShapeGraphs
       \/ rewriter \in Pipelines
    /\ active = made
    /\ pc = [c \in Calls |-> "idle"]
    /\ topo = [c \in Calls |-> [tovisit |-> <<>>, ordered |-> {}]]
    /\ program_graph = [c \in Calls |-> EmptyGraph]
    /\ node_mapping = [c \in Calls |-> <<>>]
    /\ planner_calls = [c \in Calls |-> <<>>]
    /\ outcome = [c \in Calls |-> NoOutcome]
    /\ df = NoSchema
    /\ mqtt = NoSink
    /\ hashing = NoHashing
    /\ udf = NoRequests
    /\ cli = NoCommand

\* One call of plan on the rewriter graph.
Init == InitCalls({1})

\* The same rewriter graph planned by two calls.
InitReplay == InitCalls(Calls)

Ended(c) == pc[c] \in {"done", "failed", "panicked"}

\* Entry of get_arrow_program: a fresh Topo, graph and node_mapping.  A
\* replay is made when the call before it has returned.
Begin(c) ==
    /\ c \in active
    /\ pc[c] = "idle"
    /\ \A d \in active : d < c => Ended(d)
    /\ pc' = [pc EXCEPT ![c] = "walk"]
    /\ topo' = [topo EXCEPT ![c] = TopoNew(rewriter)]
    /\ program_graph' = [program_graph EXCEPT ![c] = EmptyGraph]
    /\ node_mapping' = [node_mapping EXCEPT ![c] = [i \in 1..node_count(rewriter) |-> 0]]
    /\ UNCHANGED <<rewriter, active, planner_calls, outcome, others>>

\* Whether the arm of an input node reaches an awaited call of
\* create_physical_plan: the value and key arms always do, the aggregate arm
\* when the checks made before it pass (the input is a TableScan, the window
\* is Tumbling, the binning function resolves).
AwaitsPlanner(node) ==
    CASE node.kind \in {"ValueCalculation", "KeyCalculation"} -> TRUE
      [] node.kind = "AggregateCalculation" ->
            /\ node.input_is_table_scan
            /\ node.window.type = "Tumbling"
            /\ binning_function_proto(node.window.width, node.input_schema).kind = "ok"
      [] OTHER -> FALSE

\* The call suspends at .await of create_physical_plan for the node.
Suspend(c, r) ==
    /\ r.node # 0
    /\ pc' = [pc EXCEPT ![c] = "await"]
    /\ planner_calls' = [planner_calls EXCEPT ![c] = Append(@, r.node)]
    /\ UNCHANGED <<rewriter, active, topo, program_graph, node_mapping, outcome, others>>

\* Mutant: every call builds on the graph of the first call.
SharedGraph(c) == program_graph[1]

\* let mut program_graph: LogicalGraph = DiGraph::new(); a local of the call.
OwnGraph(c) == program_graph[c]

\* Mutant: a returned error skips the node and the loop goes on.
AfterArmSkip(kind) ==
    CASE kind = "ok" -> "walk"
      [] kind = "err" -> "walk"
      [] kind = "panic" -> "panicked"

\* Where the call is after an iteration: `?` and bail! return from
\* get_arrow_program, a panic unwinds out of it, otherwise the loop goes on.
AfterArm(kind) ==
    CASE kind = "ok" -> "walk"
      [] kind = "err" -> "failed"
      [] kind = "panic" -> "panicked"

\* One iteration of the while loop for a node of the given variant: the
\* match arm, then the rewiring of the node's incoming edges.  An error or a
\* panic ends the call; program_graph keeps the graph as it was at that point.
Iteration(c, r) ==
    /\ r.node # 0
    /\ \E arm \in {Translate(OwnGraph(c), rewriter.nodes[r.node])} :
       \E mapping \in {IF arm.kind = "ok"
                        THEN [node_mapping[c] EXCEPT ![r.node] = arm.new_node]
                        ELSE node_mapping[c]} :
       \E end \in {IF arm.kind = "ok"
                    THEN Rewire(arm.graph, mapping,
                                edges_directed(rewriter, r.node, "Incoming"),
                                arm.new_node)
                    ELSE arm} :
          /\ topo' = [topo EXCEPT ![c] = r.topo]
          /\ program_graph' = [program_graph EXCEPT ![c] = end.graph]
          /\ node_mapping' = [node_mapping EXCEPT ![c] = mapping]
          /\ pc' = [pc EXCEPT ![c] = AfterArm(end.kind)]
          /\ outcome' = IF end.kind = "ok"
                        THEN outcome
                        ELSE [outcome EXCEPT
                                 ![c] = [kind |-> end.kind, error |-> end.error]]
    /\ UNCHANGED <<rewriter, active, planner_calls, others>>

\* The variant of input node n; "" for no node.
NodeKind(n) == IF n = 0 THEN "" ELSE rewriter.nodes[n].kind

TableScan(c) ==
    /\ c \in active
    /\ pc[c] = "walk"
    /\ \E r \in TopoNext(topo[c], rewriter) :
        /\ NodeKind(r.node) = "TableScan"
        /\ Iteration(c, r)

ValueCalculation(c) ==
    /\ c \in active
    /\ pc[c] = "walk"
    /\ \E r \in TopoNext(topo[c], rewriter) :
        /\ NodeKind(r.node) = "ValueCalculation"
        /\ Suspend(c, r)

KeyCalculation(c) ==
    /\ c \in active
    /\ pc[c] = "walk"
    /\ \E r \in TopoNext(topo[c], rewriter) :
        /\ NodeKind(r.node) = "KeyCalculation"
        /\ Suspend(c, r)

AggregateCalculation(c) ==
    /\ c \in active
    /\ pc[c] = "walk"
    /\ \E r \in TopoNext(topo[c], rewriter) :
        /\ NodeKind(r.node) = "AggregateCalculation"
        /\ IF AwaitsPlanner(rewriter.nodes[r.node])
           THEN Suspend(c, r)
           ELSE Iteration(c, r)

Sink(c) ==
    /\ c \in active
    /\ pc[c] = "walk"
    /\ \E r \in TopoNext(topo[c], rewriter) :
        /\ NodeKind(r.node) = "Sink"
        /\ Iteration(c, r)

\* The awaited create_physical_plan answers: the rest of the arm and the
\* rewiring run.
Resume(c) ==
    /\ c \in active
    /\ pc[c] = "await"
    /\ \E r \in TopoNext(topo[c], rewriter) : Iteration(c, r)

\* topo.next() is None: wrap the graph and return Ok(CompiledSql).
Finish(c) ==
    /\ c \in active
    /\ pc[c] = "walk"
    /\ \E r \in TopoNext(topo[c], rewriter) :
        /\ r.node = 0
        /\ topo' = [topo EXCEPT ![c] = r.topo]
    /\ pc' = [pc EXCEPT ![c] = "done"]
    /\ outcome' = [outcome EXCEPT ![c] = CompiledSql(program_graph[c])]
    /\ UNCHANGED <<rewriter, active, program_graph, node_mapping, planner_calls, others>>

Next ==
    \E c \in Calls :
        \/ Begin(c)
        \/ TableScan(c)
        \/ ValueCalculation(c)
        \/ KeyCalculation(c)
        \/ AggregateCalculation(c)
        \/ Sink(c)
        \/ Resume(c)
        \/ Finish(c)

\* Entry of a call while an earlier call is in progress: get_arrow_program
\* takes &self, and a second future can be polled while the first is
\* suspended.
BeginConcurrent(c) ==
    /\ c \in active
    /\ pc[c] = "idle"
    /\ \A d \in active : d < c => pc[d] \in {"walk", "await"}
    /\ pc' = [pc EXCEPT ![c] = "walk"]
    /\ topo' = [topo EXCEPT ![c] = TopoNew(rewriter)]
    /\ program_graph' = [program_graph EXCEPT ![c] = EmptyGraph]
    /\ node_mapping' = [node_mapping EXCEPT ![c] = [i \in 1..node_count(rewriter) |-> 0]]
    /\ UNCHANGED <<rewriter, active, planner_calls, outcome, others>>

NextConcurrent ==
    \E c \in Calls :
        \/ BeginConcurrent(c)
        \/ TableScan(c)
        \/ ValueCalculation(c)
        \/ KeyCalculation(c)
        \/ AggregateCalculation(c)
        \/ Sink(c)
        \/ Resume(c)
        \/ Finish(c)

Spec == Init /\ [][Next]_vars

SpecReplay == InitReplay /\ [][Next]_vars

\* Two calls on the same rewriter graph, the second entered while the first
\* is in progress, their steps interleaved.
SpecConcurrent == InitReplay /\ [][NextConcurrent]_vars

(***************************************************************************)
(* ArroyoSchema (arroyo-rpc/src/df.rs): its constructors and conversions.  *)
(* Here a schema is a sequence of fields [name, data_type, nullable]; the  *)
(* arrow_schema of the wire form stands for the JSON text of that schema.  *)
(***************************************************************************)
Field(name, data_type, nullable) ==
    [name |-> name, data_type |-> data_type, nullable |-> nullable]

TimestampNanosecond == "Timestamp(Nanosecond, None)"

FieldNames(schema) == [i \in 1..Len(schema) |-> schema[i].name]

\* Schema::column_with_name(..).0 and Schema::index_of.
column_with_name(schema, name) == IndexOfName(FieldNames(schema), name)

\* Mutant: the timestamp is taken to be the last column.
from_schema_keys_last(schema, key_indices) ==
    IF column_with_name(schema, TIMESTAMP_FIELD) < 0
    THEN Err("no _timestamp field in schema")
    ELSE Ok(ArroyoSchemaNew(schema, Len(schema) - 1, key_indices))

from_schema_keys(schema, key_indices) ==
    IF column_with_name(schema, TIMESTAMP_FIELD) < 0
    THEN Err("no _timestamp field in schema")
    ELSE Ok(ArroyoSchemaNew(schema, column_with_name(schema, TIMESTAMP_FIELD), key_indices))

\* Mutant: the timestamp field is pushed whether or not one is there.
from_fields_push(fields) ==
    LET pushed == Append(fields, Field(TIMESTAMP_FIELD, TimestampNanosecond, FALSE))
        made == from_schema_keys(pushed, <<>>)
    IN IF made.kind = "ok" THEN made
       ELSE Panic("called Result::unwrap() on an Err value")

from_fields(fields) ==
    LET pushed == IF ~\E i \in 1..Len(fields) : fields[i].name = TIMESTAMP_FIELD
                  THEN Append(fields, Field(TIMESTAMP_FIELD, TimestampNanosecond, FALSE))
                  ELSE fields
        made == from_schema_keys(pushed, <<>>)
    IN IF made.kind = "ok" THEN made
       ELSE Panic("called Result::unwrap() on an Err value")

\* TryFrom<api::ArroyoSchema> for ArroyoSchema: u32 as usize keeps the value.
ArroyoSchemaFromProto(schema_proto) ==
    Ok(ArroyoSchemaNew(schema_proto.arrow_schema, schema_proto.timestamp_index,
                       schema_proto.key_indices))

\* The fields at the positions that are no key index, in their order.
UnkeyedFields(s) ==
    LET kept == {i \in 1..Len(s.schema) : (i - 1) \notin Range(s.key_indices)}
        Pick[i \in 0..Len(s.schema)] ==
            IF i = 0 THEN <<>>
            ELSE IF i \in kept THEN Append(Pick[i - 1], s.schema[i]) ELSE Pick[i - 1]
    IN Pick[Len(s.schema)]

\* unkeyed_batch: the columns of a batch that are kept, as 0-based
\* positions in ascending order.
unkeyed_batch(s, num_columns) ==
    SelectSeq([i \in 1..num_columns |-> i - 1], LAMBDA index : index \notin Range(s.key_indices))

\* Mutant: the timestamp index of the keyed schema is kept.
schema_without_keys_same_index(s) ==
    IF column_with_name(UnkeyedFields(s), TIMESTAMP_FIELD) < 0
    THEN Err("Unable to get field named _timestamp")
    ELSE Ok(ArroyoSchemaNew(UnkeyedFields(s), s.timestamp_index, <<>>))

schema_without_keys(s) ==
    IF column_with_name(UnkeyedFields(s), TIMESTAMP_FIELD) < 0
    THEN Err("Unable to get field named _timestamp")
    ELSE Ok(ArroyoSchemaNew(UnkeyedFields(s),
                            column_with_name(UnkeyedFields(s), TIMESTAMP_FIELD), <<>>))

\* The arguments the constructors are called with.
FieldChoices ==
    { Field("a", "Utf8", TRUE),
      Field(TIMESTAMP_FIELD, TimestampNanosecond, FALSE),
      Field(TIMESTAMP_FIELD, "Utf8", TRUE) }

FieldLists == UNION {[1..n -> FieldChoices] : n \in 0..MaxFields}

\* A usize that does not fit the u32 of the wire form.
BigIndex == 2 ^ WireBits + 1

IndexChoices == (0..(MaxFields - 1)) \cup {BigIndex}

KeyLists == UNION {[1..n -> {0, 1, BigIndex}] : n \in 0..MaxKeys}

SchemaMade(by, args, result) ==
    [pc |-> "made", by |-> by, args |-> args, result |-> result]

\* ArroyoSchema::new(schema, timestamp_index, key_indices)
New ==
    /\ df.pc = "args"
    /\ df' = SchemaMade("new", df.args,
                        Ok(ArroyoSchemaNew(df.args.schema, df.args.timestamp_index,
                                           df.args.key_indices)))
    /\ UNCHANGED <<planner_vars, mqtt, hashing, udf, cli>>

\* ArroyoSchema::from_fields(fields)
FromFields ==
    /\ df.pc = "args"
    /\ df' = SchemaMade("from_fields", df.args, from_fields(df.args.schema))
    /\ UNCHANGED <<planner_vars, mqtt, hashing, udf, cli>>

\* ArroyoSchema::from_schema_keys(schema, key_indices)
FromSchemaKeys ==
    /\ df.pc = "args"
    /\ df' = SchemaMade("from_schema_keys", df.args,
                        from_schema_keys(df.args.schema, df.args.key_indices))
    /\ UNCHANGED <<planner_vars, mqtt, hashing, udf, cli>>

\* try_from of a wire form received with these contents; its indices are
\* u32.
FromProto ==
    /\ df.pc = "args"
    /\ df' = SchemaMade("try_from", df.args,
                        ArroyoSchemaFromProto(
                            [arrow_schema |-> df.args.schema,
                             timestamp_index |-> AsU32(df.args.timestamp_index),
                             key_indices |-> [i \in 1..Len(df.args.key_indices) |->
                                                 AsU32(df.args.key_indices[i])]]))
    /\ UNCHANGED <<planner_vars, mqtt, hashing, udf, cli>>

\* schema.try_into(): the wire form of a schema that was made.
ToProto ==
    /\ df.pc = "made"
    /\ df.result.kind = "ok"
    /\ df' = [pc |-> "wire", by |-> df.by, args |-> df.args, result |-> df.result,
              wire |-> ArroyoSchemaToProto(df.result.value)]
    /\ UNCHANGED <<planner_vars, mqtt, hashing, udf, cli>>

\* The wire form converted back.
FromProtoBack ==
    /\ df.pc = "wire"
    /\ df' = [pc |-> "back", by |-> df.by, args |-> df.args, result |-> df.result,
              wire |-> df.wire, back |-> ArroyoSchemaFromProto(df.wire)]
    /\ UNCHANGED <<planner_vars, mqtt, hashing, udf, cli>>

\* schema.schema_without_keys() of a schema that was made.
SchemaWithoutKeys ==
    /\ df.pc = "made"
    /\ df.result.kind = "ok"
    /\ df' = [pc |-> "unkeyed", by |-> df.by, args |-> df.args, result |-> df.result,
              unkeyed |-> schema_without_keys(df.result.value)]
    /\ UNCHANGED <<planner_vars, mqtt, hashing, udf, cli>>

\* No plan call is made.
PlannerIdle ==
    /\ rewriter = EmptyGraph
    /\ active = {}
    /\ pc = [c \in Calls |-> "idle"]
    /\ topo = [c \in Calls |-> [tovisit |-> <<>>, ordered |-> {}]]
    /\ program_graph = [c \in Calls |-> EmptyGraph]
    /\ node_mapping = [c \in Calls |-> <<>>]
    /\ planner_calls = [c \in Calls |-> <<>>]
    /\ outcome = [c \in Calls |-> NoOutcome]

InitSchema ==
    /\ PlannerIdle
    /\ mqtt = NoSink
    /\ hashing = NoHashing
    /\ udf = NoRequests
    /\ cli = NoCommand
    /\ \E schema \in FieldLists, timestamp_index \in IndexChoices, key_indices \in KeyLists :
           df = [pc |-> "args",
                 args |-> [schema |-> schema, timestamp_index |-> timestamp_index,
                           key_indices |-> key_indices]]

NextSchema ==
    \/ New
    \/ FromFields
    \/ FromSchemaKeys
    \/ FromProto
    \/ ToProto
    \/ FromProtoBack
    \/ SchemaWithoutKeys

\* The constructors and conversions of ArroyoSchema applied to every
\* argument of the bounds.
SpecSchema == InitSchema /\ [][NextSchema]_vars

(***************************************************************************)
(* MqttSinkFunc::on_start (arroyo-connectors/src/mqtt/sink/mod.rs).        *)
(* attempts is an i32 and the delay a u64.  The u64 is kept at its width,  *)
(* as four limbs of 16 bits, the least significant first.  A build with    *)
(* overflow checks panics where a build without them wraps.                *)
(***************************************************************************)
Limb == 2 ^ 16

\* 1 << s for a shift s in 0..63.
OneShl(s) == [i \in 1..4 |-> IF i = (s \div 16) + 1 THEN 2 ^ (s % 16) ELSE 0]

\* The carry into each limb of n * m, for m below 2^15.
MulCarry(n, m) ==
    LET Carry[i \in 1..5] == IF i = 1 THEN 0 ELSE (n[i - 1] * m + Carry[i - 1]) \div Limb
    IN Carry

\* n * m: the low 64 bits and whether the product went beyond them.
MulU64(n, m) ==
    [value |-> [i \in 1..4 |-> (n[i] * m + MulCarry(n, m)[i]) % Limb],
     overflow |-> MulCarry(n, m)[5] > 0]

\* n.min(m) for m below 2^16.
MinU64(n, m) == IF n[2] = 0 /\ n[3] = 0 /\ n[4] = 0 /\ n[1] < m THEN n[1] ELSE m

\* i32 arithmetic without overflow checks, at the scaled width.
WrapI32(x) == ((x + 2 ^ (I32Bits - 1)) % (2 ^ I32Bits)) - 2 ^ (I32Bits - 1)

\* (50 * (1 << attempts)).min(5_000): the shift takes the low six bits of
\* attempts as its amount.
SleepMillis(attempts) == MinU64(MulU64(OneShl(attempts % 64), 50).value, 5000)

\* What the delay computation and attempts -= 1 do under overflow checks.
OverflowPanic(attempts) ==
    IF attempts \notin 0..63 THEN Some("attempt to shift left with overflow")
    ELSE IF MulU64(OneShl(attempts), 50).overflow
         THEN Some("attempt to multiply with overflow")
    ELSE IF WrapI32(attempts - 1) # attempts - 1
         THEN Some("attempt to subtract with overflow")
    ELSE None

\* MqttSinkFunc::new: no client; the build is with or without overflow
\* checks.
InitMqtt ==
    /\ PlannerIdle
    /\ df = NoSchema
    /\ hashing = NoHashing
    /\ udf = NoRequests
    /\ cli = NoCommand
    /\ \E overflow_checks \in BOOLEAN :
           mqtt = [pc |-> "new", overflow_checks |-> overflow_checks, attempts |-> 0,
                   client |-> None, connections |-> 0, delays |-> <<>>,
                   overflowed |-> FALSE, error |-> ""]

\* let mut attempts = 0;
OnStart ==
    /\ mqtt.pc = "new"
    /\ mqtt' = [mqtt EXCEPT !.pc = "loop", !.attempts = 0]
    /\ UNCHANGED <<planner_vars, df, hashing, udf, cli>>

\* create_connection gives Ok: the client is set, the event loop is spawned
\* and on_start returns.
Connected ==
    /\ mqtt.pc = "loop"
    /\ mqtt.attempts < 20
    /\ mqtt' = [mqtt EXCEPT !.pc = "returned", !.client = Some("client"),
                            !.connections = @ + 1]
    /\ UNCHANGED <<planner_vars, df, hashing, udf, cli>>

\* create_connection gives Err: the error is reported.
ConnectFailed ==
    /\ mqtt.pc = "loop"
    /\ mqtt.attempts < 20
    /\ mqtt' = [mqtt EXCEPT !.pc = "sleep", !.connections = @ + 1]
    /\ UNCHANGED <<planner_vars, df, hashing, udf, cli>>

\* sleep(Duration::from_millis((50 * (1 << attempts)).min(5_000)));
\* attempts -= 1;
Sleep ==
    /\ mqtt.pc = "sleep"
    /\ mqtt' = IF mqtt.overflow_checks /\ OverflowPanic(mqtt.attempts) # None
               THEN [mqtt EXCEPT !.pc = "panicked",
                                 !.error = OverflowPanic(mqtt.attempts)[1]]
               ELSE [mqtt EXCEPT !.pc = "loop",
                                 !.delays = Append(@, SleepMillis(mqtt.attempts)),
                                 !.overflowed = @ \/ OverflowPanic(mqtt.attempts) # None,
                                 !.attempts = WrapI32(@ - 1)]
    /\ UNCHANGED <<planner_vars, df, hashing, udf, cli>>

\* The loop ends: attempts < 20 is false.
GiveUp ==
    /\ mqtt.pc = "loop"
    /\ ~(mqtt.attempts < 20)
    /\ mqtt' = [mqtt EXCEPT !.pc = "panicked",
                            !.error = "Failed to establish connection to mqtt after 20 retries"]
    /\ UNCHANGED <<planner_vars, df, hashing, udf, cli>>

NextMqtt ==
    \/ OnStart
    \/ Connected
    \/ ConnectFailed
    \/ Sleep
    \/ GiveUp

SpecMqtt == InitMqtt /\ [][NextMqtt]_vars

(***************************************************************************)
(* server_for_hash_array (arroyo-rpc/src/df.rs): the server of a hash.     *)
(***************************************************************************)
\* u64::MAX, at the scaled width.
U64Max == 2 ^ HashBits - 1

\* u64::MAX / (n as u64) + 1: the division panics on n = 0 in every build;
\* the addition panics under overflow checks and wraps without them.
RangeSize(n, overflow_checks) ==
    IF n = 0 THEN Panic("attempt to divide by zero")
    ELSE IF U64Max \div n + 1 > U64Max
         THEN IF overflow_checks THEN Panic("attempt to add with overflow")
              ELSE Ok((U64Max \div n + 1) % (U64Max + 1))
    ELSE Ok(U64Max \div n + 1)

\* div(hash, range_size)?: arrow's checked division, an error on a zero
\* divisor.
server_for_hash_array(hash, n, overflow_checks) ==
    IF RangeSize(n, overflow_checks).kind # "ok" THEN RangeSize(n, overflow_checks)
    ELSE IF RangeSize(n, overflow_checks).value = 0 THEN Err("Divide by zero error")
    ELSE Ok(hash \div RangeSize(n, overflow_checks).value)

InitHashing ==
    /\ PlannerIdle
    /\ df = NoSchema
    /\ mqtt = NoSink
    /\ udf = NoRequests
    /\ cli = NoCommand
    /\ \E hash \in 0..U64Max, n \in 0..MaxServers, overflow_checks \in BOOLEAN :
           hashing = [pc |-> "call", hash |-> hash, n |-> n,
                      overflow_checks |-> overflow_checks]

ServerForHash ==
    /\ hashing.pc = "call"
    /\ hashing' = [pc |-> "done", hash |-> hashing.hash, n |-> hashing.n,
                   overflow_checks |-> hashing.overflow_checks,
                   result |-> server_for_hash_array(hashing.hash, hashing.n,
                                                    hashing.overflow_checks)]
    /\ UNCHANGED <<planner_vars, df, mqtt, udf, cli>>

NextHashing == ServerForHash

SpecHashing == InitHashing /\ [][NextHashing]_vars

(***************************************************************************)
(* The UDF endpoints (arroyo-api/src/udfs.rs): create_udf and              *)
(* validate_udf, with build_udf.  A request advances by one step at each   *)
(* of its awaits, and the requests in flight interleave there.  The udfs   *)
(* table is behind a database whose transactions are snapshots; a          *)
(* SERIALIZABLE transaction fails to commit when a row that its query      *)
(* would have matched was committed after its snapshot was taken.          *)
(***************************************************************************)
Reqs == 1..MaxRequests

Organizations == {"acme", "globex"}

\* What a definition parses to and whether it compiles.
DefinitionChoices ==
    { [text |-> "fn f", name |-> Some("f"), compiles |-> TRUE],
      [text |-> "fn h", name |-> Some("h"), compiles |-> FALSE],
      [text |-> "no fn", name |-> None, compiles |-> FALSE] }

Response(status, message) == [status |-> status, message |-> message]

\* The compiler service's build_udf: the errors of the build, and the
\* artifact stored when the build succeeds and save is set.
CompilerBuildUdf(definition, save) ==
    [errors |-> IF definition.compiles THEN <<>> ELSE <<"error: could not compile">>,
     udf_path |-> IF definition.compiles /\ save THEN Some(definition.text) ELSE None,
     saved |-> definition.compiles /\ save]

\* build_udf: a definition that does not parse is answered without the
\* compiler; a compiler service that cannot be reached is an error;
\* otherwise the compiler's answer, with the parsed name.
build_udf(definition, save, reached) ==
    IF definition.name = None
    THEN Ok([errors |-> <<"parse error">>, name |-> None, url |-> None, saved |-> FALSE])
    ELSE IF ~reached
    THEN Err("Failed to validate UDF")
    ELSE Ok([errors |-> CompilerBuildUdf(definition, save).errors,
             name |-> definition.name,
             url |-> CompilerBuildUdf(definition, save).udf_path,
             saved |-> CompilerBuildUdf(definition, save).saved])

\* The artifacts stored once the request's build_udf has answered.
Stored(r, answer) ==
    IF answer.kind = "ok" /\ answer.value.saved
    THEN udf.artifacts \cup {[name |-> answer.value.name[1], by |-> r]}
    ELSE udf.artifacts

\* Mutant: the isolation level is left at the database's default.
IsolationLevelDefault == "READ COMMITTED"

\* SET TRANSACTION ISOLATION LEVEL SERIALIZABLE
IsolationLevel == "SERIALIZABLE"

\* get_udf_by_name: the rows of the organization with that name.
get_udf_by_name(rows, organization_id, name) ==
    {row \in rows : row.organization_id = organization_id /\ row.name = name}

\* The rows a query of the request's transaction reads.
Visible(r) ==
    IF IsolationLevel = "SERIALIZABLE" /\ udf.req[r].snapshot # None
    THEN udf.req[r].snapshot[1]
    ELSE udf.rows

\* A row the request's query would have matched was committed after its
\* snapshot.
SerializationFailure(r) ==
    /\ IsolationLevel = "SERIALIZABLE"
    /\ get_udf_by_name(udf.rows \ udf.req[r].snapshot[1],
                       udf.req[r].organization_id, udf.req[r].name[1]) # {}

Respond(r, status, message) ==
    [udf EXCEPT !.req[r].pc = "responded", !.req[r].response = Response(status, message)]

InitUdf ==
    /\ PlannerIdle
    /\ df = NoSchema
    /\ mqtt = NoSink
    /\ hashing = NoHashing
    /\ cli = NoCommand
    /\ \E req \in [Reqs -> [op : {"create", "validate"},
                              organization_id : Organizations,
                              definition : DefinitionChoices]] :
           udf = [pc |-> "serving", rows |-> {}, artifacts |-> {},
                  req |-> [r \in Reqs |->
                              [pc |-> "received", op |-> req[r].op,
                               organization_id |-> req[r].organization_id,
                               definition |-> req[r].definition,
                               snapshot |-> None, name |-> None,
                               found_duplicate |-> FALSE, pending |-> {},
                               response |-> Response("none", "")]]]

\* client.transaction() and SET TRANSACTION ISOLATION LEVEL SERIALIZABLE
BeginTransaction(r) ==
    /\ udf.pc = "serving"
    /\ udf.req[r].op = "create" /\ udf.req[r].pc = "received"
    /\ udf' = [udf EXCEPT !.req[r].pc = "build"]
    /\ UNCHANGED <<planner_vars, df, mqtt, hashing, cli>>

\* build_udf(&req.definition, true), then the checks of its answer.
BuildUdf(r) ==
    /\ udf.pc = "serving"
    /\ udf.req[r].pc = "build"
    /\ \E reached \in BOOLEAN :
       \E answer \in {build_udf(udf.req[r].definition, TRUE, reached)} :
       \E stored \in {Stored(r, answer)} :
           udf' = IF answer.kind = "err"
                  THEN Respond(r, "internal_server_error", answer.error)
                  ELSE IF Len(answer.value.errors) > 0
                  THEN [Respond(r, "bad_request", "UDF is invalid") EXCEPT
                            !.artifacts = stored]
                  ELSE IF answer.value.name = None
                  THEN [Respond(r, "internal_server_error", "UDF name not found")
                            EXCEPT !.artifacts = stored]
                  ELSE [udf EXCEPT !.artifacts = stored, !.req[r].pc = "check",
                                   !.req[r].name = answer.value.name]
    /\ UNCHANGED <<planner_vars, df, mqtt, hashing, cli>>

\* get_udf_by_name in the transaction, its first query; a duplicate is
\* answered with bad_request and the transaction is dropped.
CheckDuplicate(r) ==
    /\ udf.pc = "serving"
    /\ udf.req[r].pc = "check"
    /\ \E duplicate \in {get_udf_by_name(udf.rows, udf.req[r].organization_id,
                                          udf.req[r].name[1])} :
           udf' = IF duplicate # {}
                  THEN [Respond(r, "bad_request",
                                "Global UDF with name " \o udf.req[r].name[1]
                                    \o " already exists")
                            EXCEPT !.req[r].found_duplicate = TRUE,
                                   !.req[r].snapshot = Some(udf.rows)]
                  ELSE [udf EXCEPT !.req[r].pc = "insert",
                                   !.req[r].snapshot = Some(udf.rows)]
    /\ UNCHANGED <<planner_vars, df, mqtt, hashing, cli>>

\* create_udf and get_udf in the transaction: the row is written, not yet
\* committed.
InsertUdf(r) ==
    /\ udf.pc = "serving"
    /\ udf.req[r].pc = "insert"
    /\ udf' = [udf EXCEPT !.req[r].pc = "commit",
                          !.req[r].pending =
                              {[organization_id |-> udf.req[r].organization_id,
                                name |-> udf.req[r].name[1], pub_id |-> r]}]
    /\ UNCHANGED <<planner_vars, df, mqtt, hashing, cli>>

\* transaction.commit()
Commit(r) ==
    /\ udf.pc = "serving"
    /\ udf.req[r].pc = "commit"
    /\ udf' = IF SerializationFailure(r)
              THEN [Respond(r, "internal_server_error", "") EXCEPT !.req[r].pending = {}]
              ELSE [Respond(r, "ok", "") EXCEPT !.rows = @ \cup udf.req[r].pending,
                                               !.req[r].pending = {}]
    /\ UNCHANGED <<planner_vars, df, mqtt, hashing, cli>>

\* validate_udf: build_udf(&req.definition, false) and its answer.
ValidateUdf(r) ==
    /\ udf.pc = "serving"
    /\ udf.req[r].op = "validate" /\ udf.req[r].pc = "received"
    /\ \E reached \in BOOLEAN :
       \E answer \in {build_udf(udf.req[r].definition, FALSE, reached)} :
       \E stored \in {Stored(r, answer)} :
           udf' = IF answer.kind = "err"
                  THEN Respond(r, "internal_server_error", answer.error)
                  ELSE [Respond(r, "ok", "") EXCEPT !.req[r].name = answer.value.name,
                                                   !.artifacts = stored]
    /\ UNCHANGED <<planner_vars, df, mqtt, hashing, cli>>

NextUdf ==
    \E r \in Reqs :
        \/ BeginTransaction(r)
        \/ BuildUdf(r)
        \/ CheckDuplicate(r)
        \/ InsertUdf(r)
        \/ Commit(r)
        \/ ValidateUdf(r)

SpecUdf == InitUdf /\ [][NextUdf]_vars

(***************************************************************************)
(* The CLI (arroyo/src/main.rs): start, with create_image,                 *)
(* create_container and tail_logs.  One run of start against a docker      *)
(* daemon that holds the container arroyo-cli-single in some state or not  *)
(* at all; every call to docker may fail.  calls is the sequence of        *)
(* container calls made to docker.                                         *)
(***************************************************************************)
\* ContainerStateStatusEnum, and "absent" for no container of that name.
ContainerStatuses == {"created", "running", "paused", "exited", "dead"}

\* Mutant: an existing container is never taken to be running.
AlreadyRunningNever(status) == FALSE

\* inspect_container(...).state.unwrap().status.unwrap() == RUNNING
AlreadyRunning(status) == status = "running"

Exit(result) == [cli EXCEPT !.pc = "returned", !.result = result]

Called(name) == Len(SelectSeq(cli.calls, LAMBDA call : call = name))

InitCli ==
    /\ PlannerIdle
    /\ df = NoSchema
    /\ mqtt = NoSink
    /\ hashing = NoHashing
    /\ udf = NoRequests
    /\ \E damon \in BOOLEAN, container \in ContainerStatuses \cup {"absent"} :
           cli = [pc |-> "get_docker", damon |-> damon, container |-> container,
                  calls |-> <<>>, image_polls |-> 0, api_polls |-> 0,
                  created |-> None, inspected |-> None, opened |-> FALSE,
                  tailing |-> FALSE, result |-> None]

\* get_docker().await?
GetDocker ==
    /\ cli.pc = "get_docker"
    /\ \E connected \in BOOLEAN :
           cli' = IF connected
                  THEN [cli EXCEPT !.pc = "create_image"]
                  ELSE Exit(Err("Failed to connect to docker -- is it running?"))
    /\ UNCHANGED <<planner_vars, df, mqtt, hashing, udf>>

\* create_image: the pull.
CreateImage ==
    /\ cli.pc = "create_image"
    /\ \E pulled \in BOOLEAN :
           cli' = IF pulled
                  THEN [cli EXCEPT !.pc = "inspect_image"]
                  ELSE Exit(Err("Failed to pull image"))
    /\ UNCHANGED <<planner_vars, df, mqtt, hashing, udf>>

\* create_image: one turn of the loop that waits for the image.
InspectImage ==
    /\ cli.pc = "inspect_image"
    /\ \E answer \in {"ok", "404", "error"} :
           /\ answer = "404" => cli.image_polls < MaxPolls
           /\ cli' = CASE answer = "ok" -> [cli EXCEPT !.pc = "create_container"]
                      [] answer = "404" -> [cli EXCEPT !.image_polls = @ + 1]
                      [] OTHER -> Exit(Err("Failed while fetching image metadata from docker"))
    /\ UNCHANGED <<planner_vars, df, mqtt, hashing, udf>>

\* create_container: docker.create_container; 409 when the name is taken.
CreateContainer ==
    /\ cli.pc = "create_container"
    /\ \E answer \in {IF cli.container = "absent" THEN "ok" ELSE "409", "error"} :
           cli' = CASE answer = "ok" ->
                          [cli EXCEPT !.pc = "start_container", !.container = "created",
                                      !.calls = Append(@, "create_container"),
                                      !.created = Some(TRUE)]
                      [] answer = "409" ->
                          [cli EXCEPT !.pc = "inspect_container",
                                      !.calls = Append(@, "create_container")]
                      [] OTHER ->
                          [Exit(Err("Failed to create container")) EXCEPT
                               !.calls = Append(@, "create_container")]
    /\ UNCHANGED <<planner_vars, df, mqtt, hashing, udf>>

\* create_container: the container exists; is it running?  Ok(false) when
\* it is, and start returns Ok(()); Ok(true) otherwise.
InspectContainer ==
    /\ cli.pc = "inspect_container"
    /\ \E inspected \in BOOLEAN :
           cli' = IF ~inspected
                  THEN [Exit(Err("Failed to inspect container")) EXCEPT
                            !.calls = Append(@, "inspect_container")]
                  ELSE IF AlreadyRunning(cli.container)
                  THEN [Exit(Ok("Container already running")) EXCEPT
                            !.calls = Append(@, "inspect_container"),
                            !.inspected = Some(cli.container),
                            !.created = Some(FALSE)]
                  ELSE [cli EXCEPT !.pc = "start_container",
                                   !.calls = Append(@, "inspect_container"),
                                   !.inspected = Some(cli.container),
                                   !.created = Some(TRUE)]
    /\ UNCHANGED <<planner_vars, df, mqtt, hashing, udf>>

\* docker.start_container(CONTAINER_NAME, None).await?
StartContainer ==
    /\ cli.pc = "start_container"
    /\ \E started \in BOOLEAN :
           cli' = IF started
                  THEN [cli EXCEPT !.pc = "wait_api", !.container = "running",
                                   !.calls = Append(@, "start_container")]
                  ELSE [Exit(Err("start_container")) EXCEPT
                            !.calls = Append(@, "start_container")]
    /\ UNCHANGED <<planner_vars, df, mqtt, hashing, udf>>

\* One turn of the loop that waits for the API.
WaitForApi ==
    /\ cli.pc = "wait_api"
    /\ \E up \in BOOLEAN :
           /\ ~up => cli.api_polls < MaxPolls
           /\ cli' = IF up
                      THEN [cli EXCEPT !.pc = "open", !.api_polls = @ + 1]
                      ELSE [cli EXCEPT !.api_polls = @ + 1]
    /\ UNCHANGED <<planner_vars, df, mqtt, hashing, udf>>

\* open::that, then the return of a daemon start or the start of the tail.
OpenBrowser ==
    /\ cli.pc = "open"
    /\ cli' = IF cli.damon
              THEN [Exit(Ok("")) EXCEPT !.opened = TRUE]
              ELSE [cli EXCEPT !.pc = "tail_logs", !.opened = TRUE, !.tailing = TRUE,
                               !.calls = Append(@, "logs")]
    /\ UNCHANGED <<planner_vars, df, mqtt, hashing, udf>>

\* tail_logs until the container's log ends, or fails.
TailLogs ==
    /\ cli.pc = "tail_logs"
    /\ \E ended \in BOOLEAN :
           cli' = IF ended
                  THEN [Exit(Ok("Container exited")) EXCEPT !.container = "exited"]
                  ELSE Exit(Err("Failed while tailing logs"))
    /\ UNCHANGED <<planner_vars, df, mqtt, hashing, udf>>

\* The interrupt handler spawned before the tail: stop_container, exit(0).
Sigint ==
    /\ cli.pc = "tail_logs"
    /\ \E stopped \in BOOLEAN :
           cli' = [Exit(Ok("exit(0)")) EXCEPT
                       !.calls = Append(@, "stop_container"),
                       !.container = IF stopped THEN "exited" ELSE @]
    /\ UNCHANGED <<planner_vars, df, mqtt, hashing, udf>>

NextCli ==
    \/ GetDocker
    \/ CreateImage
    \/ InspectImage
    \/ CreateContainer
    \/ InspectContainer
    \/ StartContainer
    \/ WaitForApi
    \/ OpenBrowser
    \/ TailLogs
    \/ Sigint

SpecCli == InitCli /\ [][NextCli]_vars

(***************************************************************************)
(* Properties.                                                             *)
(***************************************************************************)
Done(c) == pc[c] = "done"

\* The graph of the program a successful call returned.
Program(c) == outcome[c].program.graph

NodesOf(g) == 1..Len(g.nodes)
EdgesOf(g) == 1..Len(g.edges)

\* The input nodes of a variant.
InputNodes(kind) == {k \in NodesOf(rewriter) : rewriter.nodes[k].kind = kind}

\* C1: in the output graph of every successful call each ConnectorSource
\* node has exactly one outgoing edge, of kind Forward, to a Watermark node.
C1_SourceFeedsOneWatermark ==
    \A c \in Calls :
        Done(c) =>
            \A i \in NodesOf(Program(c)) :
                Program(c).nodes[i].operator_name = "ConnectorSource" =>
                    LET out == {k \in EdgesOf(Program(c)) : Program(c).edges[k].source = i}
                    IN /\ Cardinality(out) = 1
                       /\ \A k \in out :
                           /\ Program(c).edges[k].weight.edge_type = "Forward"
                           /\ Program(c).nodes[Program(c).edges[k].target].operator_name
                                  = "Watermark"

\* A successful call on a graph whose TableScan has two consumers.
C1_Witness ==
    /\ Done(1)
    /\ \E k \in InputNodes("TableScan") :
           Cardinality({e \in EdgesOf(rewriter) : rewriter.edges[e].source = k}) >= 2

\* C2: at every point of a call no two nodes of the graph under
\* construction, and so of the returned program, have the same operator id.
C2_OperatorIdsDistinct ==
    \A c \in Calls :
        \A i, j \in NodesOf(program_graph[c]) :
            i # j => program_graph[c].nodes[i].operator_id
                         # program_graph[c].nodes[j].operator_id

\* A returned program with two nodes of the same kind.
C2_Witness ==
    /\ Done(1)
    /\ \E i, j \in NodesOf(Program(1)) :
           /\ i # j
           /\ Program(1).nodes[i].operator_name = Program(1).nodes[j].operator_name
           /\ Program(1).nodes[i].operator_name = "ConnectorSink"

\* The id prefix of the node at position i of call c's graph: fixed by the
\* operator kind, and for a TumblingWindowAggregate made of the Debug form of
\* the width of the aggregate it was translated from.
Prefix(c, i) ==
    LET name == program_graph[c].nodes[i].operator_name IN
    CASE name = "ConnectorSource" -> "source"
      [] name = "Watermark" -> "watermark"
      [] name = "ArrowValue" -> "value"
      [] name = "ArrowKey" -> "key"
      [] name = "ConnectorSink" -> "sink"
      [] name = "TumblingWindowAggregate" ->
            LET k == CHOOSE k \in NodesOf(rewriter) : node_mapping[c][k] = i
            IN "TumblingWindow<" \o DurationDebug(rewriter.nodes[k].window.width) \o ">"

\* C3: every node's operator id is "<prefix>_<count>", count being the
\* number of nodes inserted before it; a watermark's count is one more than
\* its source's.
C3_OperatorIdIsPrefixCount ==
    \A c \in Calls :
        \A i \in NodesOf(program_graph[c]) :
            program_graph[c].nodes[i].operator_id = Prefix(c, i) \o "_" \o ToString(i - 1)

\* A returned program: source_0, watermark_1, then the aggregate of a 2 s
\* window as TumblingWindow<2s>_2.
C3_Witness ==
    /\ Done(1)
    /\ Len(Program(1).nodes) >= 3
    /\ Program(1).nodes[1].operator_id = "source_0"
    /\ Program(1).nodes[2].operator_id = "watermark_1"
    /\ Program(1).nodes[3].operator_id = "TumblingWindow<2s>_2"

Converted(c, e) ==
    [source |-> node_mapping[c][e.source], target |-> node_mapping[c][e.target],
     edge_type |-> e.weight.edge_type]

EdgeKey(e) == [source |-> e.source, target |-> e.target, edge_type |-> e.weight.edge_type]

IsSourceEdge(g, e) == g.nodes[e.source].operator_name = "ConnectorSource"

\* C5: the output edges other than the source -> watermark edges are the
\* input edges one for one, each from node_map[U] to node_map[N] with its
\* edge kind, node_map of a TableScan being its Watermark node.
C5_EdgesCorrespond ==
    \A c \in Calls :
        Done(c) =>
            LET g == Program(c)
                rewired == SelectSeq(g.edges, LAMBDA e : ~IsSourceEdge(g, e))
            IN /\ Len(rewired) = Len(rewriter.edges)
               /\ \A k \in EdgesOf(rewriter) :
                      Cardinality({j \in 1..Len(rewired) :
                                      EdgeKey(rewired[j]) = Converted(c, rewriter.edges[k])})
                          = Cardinality({j \in EdgesOf(rewriter) :
                                            Converted(c, rewriter.edges[j])
                                                = Converted(c, rewriter.edges[k])})
               /\ \A k \in InputNodes("TableScan") :
                      g.nodes[node_mapping[c][k]].operator_name = "Watermark"
               /\ \A e \in Range(g.edges) :
                      IsSourceEdge(g, e) =>
                          /\ e.target = e.source + 1
                          /\ g.nodes[e.target].operator_name = "Watermark"

\* A returned program for a graph with a Shuffle and a Broadcast edge, one
\* of them leaving a TableScan.
C5_Witness ==
    /\ Done(1)
    /\ \E e \in Range(rewriter.edges) :
           e.weight.edge_type = "Shuffle" /\ rewriter.nodes[e.source].kind = "TableScan"
    /\ \E e \in Range(rewriter.edges) : e.weight.edge_type = "Broadcast"

\* C6: n input nodes, e input edges and s TableScans give n + s nodes and
\* e + s edges.
C6_NodeAndEdgeCounts ==
    \A c \in Calls :
        Done(c) =>
            /\ Len(Program(c).nodes)
                   = Len(rewriter.nodes) + Cardinality(InputNodes("TableScan"))
            /\ Len(Program(c).edges)
                   = Len(rewriter.edges) + Cardinality(InputNodes("TableScan"))

\* TableScan -> Sink returned as source_0, watermark_1, sink_2 and 2 edges.
C6_Witness ==
    /\ Done(1)
    /\ Len(rewriter.nodes) = 2 /\ Len(rewriter.edges) = 1
    /\ rewriter.nodes[1].kind = "TableScan" /\ rewriter.nodes[2].kind = "Sink"
    /\ Len(Program(1).nodes) = 3 /\ Len(Program(1).edges) = 2
    /\ Program(1).nodes[1].operator_id = "source_0"
    /\ Program(1).nodes[2].operator_id = "watermark_1"
    /\ Program(1).nodes[3].operator_id = "sink_2"

\* C7: each input node is translated to the nodes its variant fixes, a key
\* node carries the declared key columns in order, every output node comes
\* from one input node, and every node has parallelism 1.
C7_KindsByVariant ==
    \A c \in Calls :
        Done(c) =>
            LET g == Program(c)
                m == node_mapping[c]
            IN /\ \A k \in NodesOf(rewriter) :
                      LET n == rewriter.nodes[k]
                          o == g.nodes[m[k]]
                      IN CASE n.kind = "TableScan" ->
                                  /\ o.operator_name = "Watermark"
                                  /\ m[k] > 1
                                  /\ g.nodes[m[k] - 1].operator_name = "ConnectorSource"
                           [] n.kind = "ValueCalculation" -> o.operator_name = "ArrowValue"
                           [] n.kind = "KeyCalculation" ->
                                  /\ o.operator_name = "ArrowKey"
                                  /\ o.operator_config.key_fields = n.key_columns
                           [] n.kind = "AggregateCalculation" ->
                                  /\ n.window.type = "Tumbling"
                                  /\ o.operator_name = "TumblingWindowAggregate"
                           [] n.kind = "Sink" -> o.operator_name = "ConnectorSink"
               /\ \A i \in NodesOf(g) :
                      /\ g.nodes[i].parallelism = 1
                      /\ IF g.nodes[i].operator_name = "ConnectorSource"
                         THEN Cardinality({k \in InputNodes("TableScan") : m[k] = i + 1}) = 1
                         ELSE Cardinality({k \in NodesOf(rewriter) : m[k] = i}) = 1

\* A returned program with a key node on the columns <<1, 0>> and one with
\* a tumbling aggregate.
C7_Witness ==
    /\ Done(1)
    /\ \E k \in InputNodes("KeyCalculation") : rewriter.nodes[k].key_columns = <<1, 0>>
    /\ InputNodes("TableScan") # {}

\* C8: every edge of a returned program has a schema with a _timestamp
\* field, and timestamp_index is that field's position.
C8_EdgesHaveTimestamp ==
    \A c \in Calls :
        Done(c) =>
            \A e \in Range(Program(c).edges) :
                /\ \E i \in 1..Len(e.weight.schema.schema) :
                       e.weight.schema.schema[i] = TIMESTAMP_FIELD
                /\ e.weight.schema.timestamp_index >= 0
                /\ e.weight.schema.timestamp_index < Len(e.weight.schema.schema)
                /\ e.weight.schema.schema[e.weight.schema.timestamp_index + 1]
                       = TIMESTAMP_FIELD

\* A returned program with a source edge whose _timestamp is the first
\* column and a rewired edge whose _timestamp is the last.
C8_Witness ==
    /\ Done(1)
    /\ \E e \in Range(Program(1).edges) :
           IsSourceEdge(Program(1), e) /\ e.weight.schema.timestamp_index = 0
    /\ \E e \in Range(Program(1).edges) :
           ~IsSourceEdge(Program(1), e) /\ e.weight.schema.timestamp_index = 2

\* The tumbling aggregate nodes of a graph, and the input node of one.
TumblingNodes(g) ==
    {i \in NodesOf(g) : g.nodes[i].operator_name = "TumblingWindowAggregate"}

AggregateOf(c, i) == rewriter.nodes[CHOOSE k \in NodesOf(rewriter) : node_mapping[c][k] = i]

\* C9: for every TumblingWindowAggregate node the last field of
\* partial_schema is _timestamp, the final plan is an Aggregate in Final mode
\* whose child is the relation `partial` with the partial aggregate's output
\* schema, and the partial aggregate is carried as partial_aggregation_plan.
C9_TumblingDecomposition ==
    \A c \in Calls :
        Done(c) =>
            \A i \in TumblingNodes(Program(c)) :
                LET config == Program(c).nodes[i].operator_config
                    planned == AggregateOf(c, i).physical_plan.plan
                    fields == config.partial_schema.arrow_schema
                IN /\ fields # <<>> /\ fields[Len(fields)] = TIMESTAMP_FIELD
                   /\ config.final_aggregation_plan.plan_type = "Aggregate"
                   /\ config.final_aggregation_plan.mode = "Final"
                   /\ config.final_aggregation_plan.input
                          = <<[plan_type |-> "ArroyoMemExec", table_name |-> "partial",
                               schema |-> config.partial_aggregation_plan.schema]>>
                   /\ config.partial_aggregation_plan = planned.input[1]

\* A returned program with a tumbling aggregate whose partial aggregate has
\* three output fields.
C9_Witness ==
    /\ Done(1)
    /\ \E i \in TumblingNodes(Program(1)) :
           Len(Program(1).nodes[i].operator_config.partial_aggregation_plan.schema) = 3

\* C10: partial_schema.timestamp_index is the number of fields of the
\* partial aggregate's output schema, and partial_schema.key_indices are the
\* aggregate's key_fields in order.
C10_PartialSchemaIndices ==
    \A c \in Calls :
        Done(c) =>
            \A i \in TumblingNodes(Program(c)) :
                LET config == Program(c).nodes[i].operator_config
                    aggregate == AggregateOf(c, i)
                IN /\ config.partial_schema.timestamp_index
                          = Len(aggregate.physical_plan.plan.input[1].schema)
                   /\ config.partial_schema.key_indices = aggregate.key_fields

\* A returned program with a tumbling aggregate keyed on <<1, 0>>.
C10_Witness ==
    /\ Done(1)
    /\ \E i \in TumblingNodes(Program(1)) :
           /\ AggregateOf(1, i).key_fields = <<1, 0>>
           /\ Program(1).nodes[i].operator_config.partial_schema.timestamp_index = 3

\* The rewriter's contract on keys: the key columns declared on a
\* KeyCalculation node are the key_fields of the aggregate that consumes it.
RewriterKeysMatch ==
    \A e \in Range(rewriter.edges) :
        (/\ rewriter.nodes[e.source].kind = "KeyCalculation"
         /\ rewriter.nodes[e.target].kind = "AggregateCalculation")
            => rewriter.nodes[e.source].key_columns = rewriter.nodes[e.target].key_fields

Aborted(c) == pc[c] \in {"failed", "panicked"}

FailedNode(c) == rewriter.nodes[CHOOSE k \in topo[c].ordered : node_mapping[c][k] = 0]

\* The input nodes that name a table the catalog does not have.
UnknownTables ==
    {k \in InputNodes("TableScan") : Catalog(rewriter.nodes[k].table_name) = None}

\* C12: a call on a graph with a TableScan of a table the catalog does not
\* have returns no program, and when that TableScan ends the call the caller
\* gets a returned error that carries the table name.
C12_UnknownTableFails ==
    \A c \in Calls :
        /\ UnknownTables # {} => ~Done(c)
        /\ (/\ Aborted(c)
            /\ FailedNode(c).kind = "TableScan"
            /\ Catalog(FailedNode(c).table_name) = None)
               => /\ pc[c] = "failed"
                  /\ outcome[c] = [kind |-> "err",
                                    error |-> "table " \o FailedNode(c).table_name
                                                  \o " not found"]

\* A call that ended on the table `missing`.
C12_Witness ==
    /\ pc[1] = "failed"
    /\ FailedNode(1).kind = "TableScan"
    /\ FailedNode(1).table_name = "missing"
    /\ outcome[1].error = "table missing not found"
\* C13: a call ended by an AggregateCalculation over a TableScan whose
\* window is Sliding, Session or Instant returns an error value to the
\* caller.
C13_UnsupportedWindowReturned ==
    \A c \in Calls :
        (/\ Aborted(c)
         /\ FailedNode(c).kind = "AggregateCalculation"
         /\ FailedNode(c).input_is_table_scan
         /\ FailedNode(c).window.type \in {"Sliding", "Session", "Instant"})
            => /\ pc[c] = "failed"
               /\ outcome[c].kind = "err"
\* The aggregates of the input whose immediate input is not a TableScan.
BadInputAggregates ==
    {k \in InputNodes("AggregateCalculation") : ~rewriter.nodes[k].input_is_table_scan}

\* C14: a call on a graph with an aggregate whose immediate input is not a
\* TableScan returns no program; when that aggregate ends the call the
\* caller gets the returned error of the input check, whatever the window,
\* and the graph has no node for the aggregate.
C14_BadAggregateInputFails ==
    \A c \in Calls :
        /\ BadInputAggregates # {} => ~Done(c)
        /\ (/\ Aborted(c)
            /\ FailedNode(c).kind = "AggregateCalculation"
            /\ ~FailedNode(c).input_is_table_scan)
               => /\ pc[c] = "failed"
                  /\ outcome[c] = [kind |-> "err", error |-> "expected logical plan"]
                  /\ Cardinality(TumblingNodes(program_graph[c]))
                         = Cardinality({k \in InputNodes("AggregateCalculation") :
                                           node_mapping[c][k] # 0})
                  /\ \A k \in BadInputAggregates : k \notin Range(planner_calls[c])

\* A call ended by a Sliding aggregate whose input is not a TableScan,
\* after the scan before it was translated.
C14_Witness ==
    /\ pc[1] = "failed"
    /\ FailedNode(1).kind = "AggregateCalculation"
    /\ ~FailedNode(1).input_is_table_scan
    /\ FailedNode(1).window.type = "Sliding"
    /\ Len(program_graph[1].nodes) = 2
\* An aggregate that passes the checks made before the sub-planner is asked
\* and for which the sub-planner returns a tree whose root is not an
\* Aggregate in Final mode.
NotFinalAggregate(node) ==
    /\ node.kind = "AggregateCalculation"
    /\ AwaitsPlanner(node)
    /\ node.physical_plan.ok
    /\ \/ node.physical_plan.plan.plan_type # "Aggregate"
       \/ node.physical_plan.plan.mode # "Final"

\* C15: a call on a graph with such an aggregate returns no program; when
\* the aggregate ends the call the caller gets one of the two returned
\* errors of the shape check and the graph has no TumblingWindowAggregate
\* node for it.
C15_NotAFinalAggregateFails ==
    \A c \in Calls :
        /\ (\E k \in NodesOf(rewriter) : NotFinalAggregate(rewriter.nodes[k])) => ~Done(c)
        /\ (Aborted(c) /\ NotFinalAggregate(FailedNode(c)))
               => /\ pc[c] = "failed"
                  /\ outcome[c].kind = "err"
                  /\ outcome[c].error
                         = (IF FailedNode(c).physical_plan.plan.plan_type # "Aggregate"
                            THEN "expected aggregate physical plan"
                            ELSE "expect AggregateMode to be Final so we can decompose it for checkpointing.")
                  /\ Cardinality(TumblingNodes(program_graph[c]))
                         = Cardinality({k \in InputNodes("AggregateCalculation") :
                                           node_mapping[c][k] # 0})

\* A call ended by an aggregate planned in Single mode, after its scan was
\* translated.
C15_Witness ==
    /\ pc[1] = "failed"
    /\ NotFinalAggregate(FailedNode(1))
    /\ FailedNode(1).physical_plan.plan.plan_type = "Aggregate"
    /\ Len(program_graph[1].nodes) = 2
\* C16: a call ended by a TableScan of a table the catalog has but that is
\* not a ConnectorTable returns an error value to the caller.
C16_NotASourceReturned ==
    \A c \in Calls :
        (/\ Aborted(c)
         /\ FailedNode(c).kind = "TableScan"
         /\ Catalog(FailedNode(c).table_name) # None
         /\ Catalog(FailedNode(c).table_name)[1].variant # "ConnectorTable")
            => /\ pc[c] = "failed"
               /\ outcome[c].kind = "err"

\* C17: a call ended by a TableScan whose projected schema has no
\* _timestamp column returns an error value to the caller.
C17_SchemaShapeReturned ==
    \A c \in Calls :
        (/\ Aborted(c)
         /\ FailedNode(c).kind = "TableScan"
         /\ Catalog(FailedNode(c).table_name) # None
         /\ Catalog(FailedNode(c).table_name)[1].variant = "ConnectorTable"
         /\ Catalog(FailedNode(c).table_name)[1].sql_source.ok
         /\ IndexOfName(FailedNode(c).projected_schema, TIMESTAMP_FIELD) < 0)
            => /\ pc[c] = "failed"
               /\ outcome[c].kind = "err"
\* A node of the walk whose translation gave no output node, and the steps
\* of a call.
TranslationFailed(c) == \E k \in topo[c].ordered : node_mapping[c][k] = 0

CallSteps(c) ==
    \/ Begin(c)
    \/ TableScan(c)
    \/ ValueCalculation(c)
    \/ KeyCalculation(c)
    \/ AggregateCalculation(c)
    \/ Sink(c)
    \/ Resume(c)
    \/ Finish(c)

CauseClass(node) ==
    CASE node.kind = "TableScan" /\ Catalog(node.table_name) = None -> "user"
      [] node.kind = "TableScan" /\ Catalog(node.table_name) # None ->
            IF Catalog(node.table_name)[1].variant # "ConnectorTable" THEN "user"
            ELSE IF /\ Catalog(node.table_name)[1].sql_source.ok
                    /\ IndexOfName(node.projected_schema, TIMESTAMP_FIELD) < 0
                 THEN "breach"
            ELSE "none"
      [] node.kind = "AggregateCalculation" ->
            IF ~node.input_is_table_scan \/ node.window.type # "Tumbling" THEN "user"
            ELSE IF NotFinalAggregate(node) THEN "breach"
            ELSE "none"
      [] OTHER -> "none"

\* How the translation of a node ends when it is the first of a call.
FailureOf(node) == Translate(EmptyGraph, node)

\* C19: the way a failed call reaches the caller, as a returned error or as
\* a panic, tells the class of the failure: no failure of the other class
\* reaches the caller the same way.
C19_ClassesReportedApart ==
    \A c \in Calls :
        (Aborted(c) /\ CauseClass(FailedNode(c)) # "none") =>
            \A m \in NodeChoices :
                CauseClass(m) \notin {"none", CauseClass(FailedNode(c))}
                    => FailureOf(m).kind # outcome[c].kind
\* A call run on its own from the walker state t, the graph g and the
\* mapping: how it ends and the graph it has built by then.
RECURSIVE PlanAlone(_, _, _)
PlanAlone(t, g, mapping) ==
    LET r == CHOOSE x \in TopoNext(t, rewriter) : TRUE IN
    IF r.node = 0 THEN [outcome |-> CompiledSql(g), graph |-> g]
    ELSE LET arm == Translate(g, rewriter.nodes[r.node])
             mapped == [mapping EXCEPT ![r.node] = arm.new_node]
             end == IF arm.kind = "ok"
                    THEN Rewire(arm.graph, mapped,
                                edges_directed(rewriter, r.node, "Incoming"),
                                arm.new_node)
                    ELSE arm
         IN IF end.kind = "ok"
            THEN PlanAlone(r.topo, end.graph, mapped)
            ELSE [outcome |-> [kind |-> end.kind, error |-> end.error],
                  graph |-> end.graph]

Alone == PlanAlone(TopoNew(rewriter), EmptyGraph, [i \in 1..node_count(rewriter) |-> 0])

\* C20: with the steps of two calls interleaved at the awaits of the
\* sub-planner, each call builds, node by node and edge by edge, the graph
\* it builds when run alone, and ends as it ends when run alone, with the
\* same program and operator ids.
C20_CallsDoNotInterfere ==
    \A c \in active :
        /\ pc[c] # "idle" =>
               /\ Len(program_graph[c].nodes) <= Len(Alone.graph.nodes)
               /\ Len(program_graph[c].edges) <= Len(Alone.graph.edges)
               /\ program_graph[c].nodes
                      = SubSeq(Alone.graph.nodes, 1, Len(program_graph[c].nodes))
               /\ program_graph[c].edges
                      = SubSeq(Alone.graph.edges, 1, Len(program_graph[c].edges))
        /\ Ended(c) => outcome[c] = Alone.outcome

\* Both calls suspended at an await, the first for its third node and the
\* second for its second node.
C20_Witness ==
    /\ pc[1] = "await" /\ pc[2] = "await"
    /\ planner_calls[1] = <<2, 3>>
    /\ planner_calls[2] = <<2>>
    /\ Len(program_graph[1].nodes) = 3
    /\ Len(program_graph[2].nodes) = 2
\* C21: the output graph of every successful call on an acyclic rewriter
\* graph is acyclic: no edge's source is reachable from its target.
C21_ProgramIsAcyclic ==
    \A c \in active :
        Done(c) /\ Acyclic(rewriter.edges) => Acyclic(Program(c).edges)

\* A successful call on a graph of two edges into one node: the program has
\* the two source-to-watermark edges and the two rewired edges.
C21_Witness ==
    /\ Done(1)
    /\ Len(rewriter.edges) = 2
    /\ rewriter.edges[1].target = rewriter.edges[2].target
    /\ rewriter.edges[1].source # rewriter.edges[2].source
    /\ Len(Program(1).edges) = 4
\* C22: the result of a successful call carries a schema registry that maps
\* every edge of the output graph to that edge's ArroyoSchema.
C22_SchemasCoverEdges ==
    \A c \in active :
        Done(c) =>
            /\ DOMAIN outcome[c].schemas = EdgesOf(Program(c))
            /\ \A e \in EdgesOf(Program(c)) :
                   outcome[c].schemas[e] = Program(c).edges[e].weight.schema
\* The configuration of the tumbling node i of a program graph.
ConfigOf(c, i) == Program(c).nodes[i].operator_config

\* C23: for the width w of every tumbling aggregate, in nanoseconds, the
\* operator records width_micros = floor(w / 1000) and the binning interval
\* is (0 months, 0 days, w nanoseconds), so that
\* width_micros * 1000 <= binning nanoseconds < (width_micros + 1) * 1000.
C23_WidthRecorded ==
    \A c \in active :
        Done(c) =>
            \A i \in TumblingNodes(Program(c)) :
                LET w == as_nanos(AggregateOf(c, i).window.width)
                    config == ConfigOf(c, i)
                IN /\ config.width_micros = w \div 1000
                   /\ config.binning_function.interval
                          = [months |-> 0, days |-> 0, nanos |-> w]
                   /\ config.width_micros * 1000 <= config.binning_function.interval.nanos
                   /\ config.binning_function.interval.nanos
                          < (config.width_micros + 1) * 1000
\* The widths of the tumbling aggregates as Rust prints them with {:?}.
WidthText(width) ==
    CASE width = Duration(2, 0) -> "2s"
      [] width = Duration(0, 1500000) -> "1.5ms"
      [] width = Duration(0, 2500) -> "2.5µs"
      [] width = Duration(0, 700) -> "700ns"

\* C24 as stated: the description of every TumblingWindowAggregate node of
\* the output graph is TumblingWindow<duration> for the aggregate's width.
C24_DescriptionIsWindowName ==
    \A c \in active :
        Done(c) =>
            \A i \in TumblingNodes(Program(c)) :
                Program(c).nodes[i].description
                    = "TumblingWindow<" \o WidthText(AggregateOf(c, i).window.width) \o ">"

\* C24, amended: TumblingWindow<duration> is the name in the configuration
\* of every TumblingWindowAggregate node and the prefix of its operator id;
\* the description of the node is the fixed text "tumbling window".
C24_NameIsWindowName ==
    \A c \in active :
        Done(c) =>
            \A i \in TumblingNodes(Program(c)) :
                LET name == "TumblingWindow<"
                                \o WidthText(AggregateOf(c, i).window.width) \o ">"
                IN /\ ConfigOf(c, i).name = name
                   /\ Program(c).nodes[i].operator_id = name \o "_" \o ToString(i - 1)
                   /\ Program(c).nodes[i].description = "tumbling window"

\* A successful call with an aggregate over a window of 1.5 ms.
C24_Witness ==
    /\ Done(1)
    /\ \E i \in TumblingNodes(Program(1)) :
           /\ AggregateOf(1, i).window.width = Duration(0, 1500000)
           /\ ConfigOf(1, i).name = "TumblingWindow<1.5ms>"
\* The schemas obtained: what a constructor made, what came back from the
\* wire form, and what schema_without_keys gave.
Obtained ==
    (IF df.pc \in {"made", "wire", "back", "unkeyed"} /\ df.result.kind = "ok"
     THEN {df.result.value} ELSE {})
    \cup (IF df.pc = "back" /\ df.back.kind = "ok" THEN {df.back.value} ELSE {})
    \cup (IF df.pc = "unkeyed" /\ df.unkeyed.kind = "ok" THEN {df.unkeyed.value} ELSE {})

TimestampColumns(schema) == {i \in 1..Len(schema) : schema[i].name = TIMESTAMP_FIELD}

\* C25: every ArroyoSchema obtained through a constructor or conversion has
\* exactly one column named _timestamp, its timestamp_index names that
\* column, and its key indices are in range, pairwise distinct and none of
\* them is timestamp_index.
C25_SchemaInvariant ==
    \A s \in Obtained :
        /\ Cardinality(TimestampColumns(s.schema)) = 1
        /\ TimestampColumns(s.schema) = {s.timestamp_index + 1}
        /\ \A k \in 1..Len(s.key_indices) :
               /\ s.key_indices[k] \in 0..(Len(s.schema) - 1)
               /\ s.key_indices[k] # s.timestamp_index
               /\ \A j \in 1..(k - 1) : s.key_indices[j] # s.key_indices[k]
\* C26: from_fields never fails; its schema has no key indices and a
\* timestamp_index that points at a field named _timestamp; when no field
\* has that name one nanosecond-timestamp field of that name is appended as
\* the last column, and when one has it the field list is left unchanged.
C26_FromFields ==
    df.pc \in {"made", "wire", "back", "unkeyed"} /\ df.by = "from_fields" =>
        /\ df.result.kind = "ok"
        /\ df.result.value.key_indices = <<>>
        /\ df.result.value.timestamp_index \in 0..(Len(df.result.value.schema) - 1)
        /\ df.result.value.schema[df.result.value.timestamp_index + 1].name = TIMESTAMP_FIELD
        /\ IF TimestampColumns(df.args.schema) = {}
           THEN /\ df.result.value.schema
                      = df.args.schema
                          \o <<[name |-> "_timestamp",
                                data_type |-> "Timestamp(Nanosecond, None)",
                                nullable |-> FALSE]>>
                /\ df.result.value.timestamp_index = Len(df.args.schema)
           ELSE df.result.value.schema = df.args.schema

\* from_fields was called on fields none of which is named _timestamp, and
\* gave a schema of one more column.
C26_Witness ==
    /\ df.pc = "made" /\ df.by = "from_fields"
    /\ Len(df.args.schema) = 2
    /\ TimestampColumns(df.args.schema) = {}
    /\ df.result.kind = "ok"
    /\ Len(df.result.value.schema) = 3
\* C27: from_schema_keys returns an error exactly when the schema has no
\* column named _timestamp; otherwise its schema is the given one, its
\* timestamp_index is the position of the first column of that name, and
\* its key_indices are the given indices in the given order.
C27_FromSchemaKeys ==
    df.pc \in {"made", "wire", "back", "unkeyed"} /\ df.by = "from_schema_keys" =>
        IF TimestampColumns(df.args.schema) = {}
        THEN df.result.kind = "err"
        ELSE /\ df.result.kind = "ok"
             /\ df.result.value.schema = df.args.schema
             /\ df.result.value.timestamp_index + 1 \in TimestampColumns(df.args.schema)
             /\ \A i \in TimestampColumns(df.args.schema) :
                    df.result.value.timestamp_index + 1 <= i
             /\ df.result.value.key_indices = df.args.key_indices

\* from_schema_keys was called with two keys on a schema whose _timestamp
\* is the first of two columns.
C27_Witness ==
    /\ df.pc = "made" /\ df.by = "from_schema_keys"
    /\ Len(df.args.schema) = 2
    /\ TimestampColumns(df.args.schema) = {1}
    /\ df.args.key_indices = <<1, 0>>
    /\ df.result.kind = "ok"
    /\ df.result.value.timestamp_index = 0

\* from_schema_keys was called on a schema without a _timestamp column.
C27_WitnessError ==
    /\ df.pc = "made" /\ df.by = "from_schema_keys"
    /\ df.args.schema # <<>>
    /\ TimestampColumns(df.args.schema) = {}
    /\ df.result.kind = "err"
\* C28: converting an ArroyoSchema to its wire form and back yields an equal
\* schema, with the same timestamp_index and the same key indices in the
\* same order.
C28_WireRoundTrip ==
    df.pc = "back" =>
        /\ df.back.kind = "ok"
        /\ df.back.value = df.result.value
\* C29: on_start makes at most 20 connection attempts, returns with the
\* client set at the first attempt that succeeds, and when it panics it is
\* after the 20th failure, with the message of the give-up.
C29_AtMostTwentyAttempts ==
    /\ mqtt.pc # "none" => mqtt.connections <= 20
    /\ mqtt.pc = "returned" => mqtt.client # None
    /\ mqtt.pc = "panicked" =>
           /\ mqtt.connections = 20
           /\ mqtt.error = "Failed to establish connection to mqtt after 20 retries"

\* min(50 * 2^k, 5000)
ExpectedDelay(k) == IF k >= 7 THEN 5000 ELSE 50 * 2 ^ k

\* C30: the delay slept after the k-th consecutive failed attempt
\* (k = 0, 1, 2, ...) is min(50 * 2^k, 5000) ms: the delays are
\* non-decreasing, at most 5000 ms, and the shift and the multiplication
\* never overflow.
C30_BackoffDelays ==
    mqtt.pc # "none" =>
        /\ \A k \in 1..Len(mqtt.delays) :
               /\ mqtt.delays[k] = ExpectedDelay(k - 1)
               /\ mqtt.delays[k] <= 5000
               /\ k > 1 => mqtt.delays[k - 1] <= mqtt.delays[k]
        /\ ~mqtt.overflowed
        /\ mqtt.error \notin {"attempt to shift left with overflow",
                              "attempt to multiply with overflow"}
\* C31: nodes are translated in topological order: every predecessor of a
\* translated node is itself translated and has its entry in node_mapping,
\* and no call ends in the panic of a failed node_mapping lookup.
C31_PredecessorsMapped ==
    \A c \in active :
        /\ pc[c] # "idle" =>
               \A k \in NodesOf(rewriter) :
                   node_mapping[c][k] # 0 =>
                       \A e \in Range(edges_directed(rewriter, k, "Incoming")) :
                           /\ e.source \in topo[c].ordered
                           /\ node_mapping[c][e.source] # 0
        /\ outcome[c].kind = "panic" =>
               outcome[c].error # "called Option::unwrap() on a None value"

\* A successful call on a graph whose third node has the first two as its
\* predecessors: both edges are rewired.
C31_Witness ==
    /\ Done(1)
    /\ Len(rewriter.nodes) = 3
    /\ {<<e.source, e.target>> : e \in Range(rewriter.edges)} = {<<1, 3>>, <<2, 3>>}
    /\ node_mapping[1][1] # 0 /\ node_mapping[1][2] # 0 /\ node_mapping[1][3] # 0
    /\ \E e \in Range(Program(1).edges) :
           e.source = node_mapping[1][1] /\ e.target = node_mapping[1][3]
\* C32 as stated: for every TumblingWindowAggregate node
\* input_schema.timestamp_index is the position of a field named _timestamp
\* in the aggregate's input schema, also when _timestamp is not the last
\* field.
C32_TimestampIndexNamesTimestamp ==
    \A c \in active :
        Done(c) =>
            \A i \in TumblingNodes(Program(c)) :
                LET fields == AggregateOf(c, i).input_schema
                    index == ConfigOf(c, i).input_schema.timestamp_index
                IN /\ index \in 0..(Len(fields) - 1)
                   /\ fields[index + 1] = TIMESTAMP_FIELD

\* C32, amended: for every TumblingWindowAggregate node
\* input_schema.timestamp_index is the number of input fields minus one,
\* which is the position of _timestamp when _timestamp is the last field
\* and of another field otherwise; the subtraction never wraps, as an input
\* schema without _timestamp (one with no fields included) is rejected
\* before it.
C32_TimestampIndexIsLast ==
    \A c \in active :
        /\ Done(c) =>
               \A i \in TumblingNodes(Program(c)) :
                   LET fields == AggregateOf(c, i).input_schema
                       index == ConfigOf(c, i).input_schema.timestamp_index
                   IN /\ Len(fields) >= 1
                      /\ index = Len(fields) - 1
                      /\ fields[Len(fields)] = TIMESTAMP_FIELD
                             => fields[index + 1] = TIMESTAMP_FIELD
        /\ Aborted(c) => outcome[c].error # "attempt to subtract with overflow"
        /\ Aborted(c) /\ FailedNode(c).kind = "AggregateCalculation"
              /\ FailedNode(c).input_is_table_scan
              /\ FailedNode(c).window.type = "Tumbling"
              /\ FailedNode(c).input_schema = <<>>
              => outcome[c] = [kind |-> "err", error |-> "no field named _timestamp"]

\* A successful call with an aggregate whose input schema has _timestamp
\* first and another field last: timestamp_index is 1.
C32_Witness ==
    /\ Done(1)
    /\ \E i \in TumblingNodes(Program(1)) :
           /\ AggregateOf(1, i).input_schema = <<TIMESTAMP_FIELD, "a">>
           /\ ConfigOf(1, i).input_schema.timestamp_index = 1

\* A call rejected at an aggregate whose input schema has no fields.
C32_WitnessEmpty ==
    /\ Aborted(1)
    /\ FailedNode(1).kind = "AggregateCalculation"
    /\ FailedNode(1).input_is_table_scan
    /\ FailedNode(1).input_schema = <<>>
\* C33: the aggregate's input is checked before its window kind: a call
\* that stops at an aggregate whose input is not a TableScan returns the
\* error of the input check whatever the window, and the outcome of an
\* unsupported window arises only when the input is a TableScan.
C33_InputCheckedBeforeWindow ==
    \A c \in active :
        Aborted(c) /\ FailedNode(c).kind = "AggregateCalculation" =>
            /\ ~FailedNode(c).input_is_table_scan =>
                   outcome[c] = [kind |-> "err", error |-> "expected logical plan"]
            /\ outcome[c].error = "only support tumbling windows for now" =>
                   /\ FailedNode(c).input_is_table_scan
                   /\ FailedNode(c).window.type # "Tumbling"

\* A call stopped at a sliding-window aggregate whose input is not a
\* TableScan; it returned the error of the input check.
C33_Witness ==
    /\ pc[1] = "failed"
    /\ FailedNode(1).kind = "AggregateCalculation"
    /\ ~FailedNode(1).input_is_table_scan
    /\ FailedNode(1).window.type = "Sliding"
    /\ outcome[1].error = "expected logical plan"
\* The schema has one column named _timestamp and timestamp_index names it.
HasTimestampColumn(s) == TimestampColumns(s.schema) = {s.timestamp_index + 1}

C37_WitnessError ==
    /\ df.pc = "unkeyed"
    /\ HasTimestampColumn(df.result.value)
    /\ df.result.value.timestamp_index \in Range(df.result.value.key_indices)
    /\ df.unkeyed.kind = "err"
\* C36: for every server count n >= 1 and every hash h the result is
\* floor(h / (floor(u64::MAX / n) + 1)), an index in 0..n-1 that is
\* non-decreasing in h, and the range size does not overflow.
C36_ServerOfHash ==
    hashing.pc = "done" /\ hashing.n >= 1 =>
        /\ hashing.result.kind = "ok"
        /\ hashing.result.value = hashing.hash \div (U64Max \div hashing.n + 1)
        /\ hashing.result.value \in 0..(hashing.n - 1)
        /\ \A lower \in 0..hashing.hash :
               LET below == server_for_hash_array(lower, hashing.n, hashing.overflow_checks)
               IN below.kind = "ok" /\ below.value <= hashing.result.value
\* C34: under every interleaving of create_udf requests at most one UDF of
\* a name is stored per organization, and a create that finds a UDF of its
\* name in its organization answers bad_request and stores nothing.
C34_OneUdfPerName ==
    udf.pc = "serving" =>
        /\ \A row, other \in udf.rows :
               row.organization_id = other.organization_id /\ row.name = other.name
                   => row = other
        /\ \A r \in Reqs :
               udf.req[r].found_duplicate =>
                   /\ udf.req[r].response.status = "bad_request"
                   /\ \A row \in udf.rows : row.pub_id # r

\* Two creates of the same name in the same organization that both passed
\* the duplicate check: one committed, the other failed to commit.
C34_Witness ==
    /\ udf.pc = "serving"
    /\ udf.req[1].organization_id = udf.req[2].organization_id
    /\ udf.req[1].name = Some("f") /\ udf.req[2].name = Some("f")
    /\ udf.req[1].op = "create" /\ udf.req[2].op = "create"
    /\ ~udf.req[1].found_duplicate /\ ~udf.req[2].found_duplicate
    /\ udf.req[1].response.status = "ok"
    /\ udf.req[2].response.status = "internal_server_error"
    /\ Cardinality(udf.rows) = 1

\* C35: a create_udf request that is rejected leaves no persistent effect,
\* neither a row nor a saved artifact, and validate_udf never saves an
\* artifact or stores a row.
C35_RejectedLeavesNothing ==
    udf.pc = "serving" =>
        \A r \in Reqs :
            /\ udf.req[r].op = "create" /\ udf.req[r].pc = "responded"
                  /\ udf.req[r].response.status # "ok"
                  => /\ \A row \in udf.rows : row.pub_id # r
                     /\ \A artifact \in udf.artifacts : artifact.by # r
            /\ udf.req[r].op = "validate"
                  => /\ \A row \in udf.rows : row.pub_id # r
                     /\ \A artifact \in udf.artifacts : artifact.by # r
\* C38: a run of start calls start_container at most once; when the
\* container exists and is running, start returns without calling
\* start_container, waiting for the API or tailing logs; when it exists
\* and is not running, or was newly created, start_container is called
\* exactly once.
C38_StartsAtMostOnce ==
    cli.pc # "none" =>
        /\ Called("start_container") <= 1
        /\ cli.inspected = Some("running") =>
               /\ cli.pc = "returned" /\ cli.result = Ok("Container already running")
               /\ Called("start_container") = 0
               /\ cli.api_polls = 0 /\ ~cli.opened /\ ~cli.tailing
        /\ cli.created = Some(TRUE) /\ cli.pc # "start_container" =>
               Called("start_container") = 1
        /\ cli.created = Some(TRUE) <=>
               \/ cli.inspected # None /\ cli.inspected # Some("running")
               \/ cli.inspected = None /\ Called("create_container") = 1
                     /\ cli.pc \notin {"inspect_container", "returned"}
               \/ cli.inspected = None /\ cli.pc = "returned"
                     /\ Called("start_container") = 1

\* The container existed and was running: start has returned.
C38_Witness ==
    /\ cli.pc = "returned"
    /\ cli.inspected = Some("running")
    /\ cli.calls = <<"create_container", "inspect_container">>

\* The container existed, exited: it was started once and start has run
\* to its end.
C38_WitnessStarted ==
    /\ cli.pc = "returned"
    /\ cli.inspected = Some("exited")
    /\ cli.result = Ok("Container exited")
    /\ Called("start_container") = 1
====
